---- MODULE Spec2Model ----
(***************************************************************************)
(* ADA-Pi backend: the IPC router (event bus), the NetworkWorker failover  *)
(* controller with the ModemWorker data session it drives through the bus, *)
(* and the OTAManager update pipeline.                                     *)
(*                                                                         *)
(* The component specifications share one set of variables:                *)
(*   SpecBus    - IPCRouter.subscribe / IPCRouter.publish, one caller      *)
(*   SpecConc   - the same calls made from several threads                 *)
(*   SpecBridge - the router as BackendEngine.start wires it: bridge,      *)
(*                tagging wrapper, handlers that publish                   *)
(*   SpecNet    - NetworkWorker.start iterations, ModemWorker handlers     *)
(*   SpecModule - NetworkModule.update against read_status                 *)
(*   SpecOTA    - OTAManager.queue_update and the OTAManager.start loop    *)
(*   SpecPackages - the same loop over packages of every layout            *)
(*   SpecModem  - ModemWorker.connect_data / disconnect_data called from    *)
(*                the NetworkWorker thread while ModemWorker.start polls   *)
(*   SpecModemConc - the same two methods called from two threads          *)
(*   SpecLoops  - the workers' start() loops and BackendEngine._shutdown   *)
(*   SpecFailover - the NetworkWorker loop over a run without end          *)
(*   SpecTacho  - TachoUploader.process_daily_uploads cycles               *)
(* and SpecWired / SpecWiredFair model the OTA path as BackendEngine wires *)
(* and starts it.                                                          *)
(***************************************************************************)
EXTENDS Integers, Sequences, FiniteSets, TLC

VARIABLES
    \* ---- IPCRouter ----
    subscribers,    \* self.subscribers: event name -> list of callbacks
    pubEvent,       \* event_name of the publish call in progress
    pubPhase,       \* position of the publish call: idle / exact / wild / returned / raised
    pubIdx,         \* index of the for loop over the current callback list
    calls,          \* callbacks invoked by the publish call, in order
    subsAtStart,    \* the registry as it was when the publish call began
    \* ---- NetworkWorker / ModemWorker ----
    nw,             \* NetworkWorker fields
    mw,             \* ModemWorker fields
    now,            \* time.time(), seconds
    cfgDisk,        \* the "modem" section of /etc/ada_pi/config.json
    netState,       \* NetworkModule.state
    published,      \* events published on the bus by the latest operation
    lastEval,       \* what the latest NetworkWorker iteration's _check_failover did
    lastConnReqAt,  \* time.time() sample of the latest modem_connect_request, 0: none
    minGap,         \* least distance seen between two successive modem_connect_requests
    nShort,         \* iterations so far that came INTERVAL after the one before
    sawConnected,   \* modem_data_connected{connected: true} observed, no recovery since
    nSettings,      \* number of apply_settings calls made
    lastModemEvent, \* connected of the latest modem_data_connected published: "none", "true", "false"
    \* ---- OTAManager ----
    update_queue,   \* self.update_queue
    otaPc,          \* position of the OTAManager.start thread
    otaJob,         \* the job _process_job is working on
    ota_events,     \* every ota_status payload published, in order
    otaFiles,       \* files under OTA_DIR: url -> content (or NoFile)
    staging,        \* STAGING_DIR contents
    installDir,     \* BACKEND_INSTALL_DIR contents
    venv,           \* VENV_DIR contents
    restarts,       \* number of successful "systemctl restart" calls
    nextJobId,      \* number of queue_update calls made so far, plus one
    dirsAtTake,     \* staging / install / venv as they were when the job was taken
    resumedFrom,    \* offset the latest step's download resumed from and got, or NoResume
    \* ---- IPCRouter called from several threads ----
    registry,       \* self.subscribers as a dict: event name -> reference to a list object
    lists,          \* the list objects: reference -> list of callbacks
    subT,           \* per subscribing thread: position in its subscribe call
    pubT,           \* per publishing thread: position in its publish call
    completed,      \* subscriptions whose subscribe call has returned
    \* ---- the router as BackendEngine.start wires it ----
    bootPc,         \* position of BackendEngine.start after the worker threads run
    wsubs,          \* router.subscribers: event name -> list of handlers
    tracking,       \* router.publish has been replaced by the tagging wrapper
    stack,          \* publish calls in progress on the publishing thread, outermost first
    deliveries,     \* handler invocations of the latest outermost publish, in order
    top,            \* the latest outermost publish: its event, and whether "*" was subscribed
    nPub,           \* number of outermost publish calls made
    \* ---- NetworkModule written by NetworkWorker, read by other threads ----
    nmState,        \* NetworkModule.state
    nmPc,           \* position of the NetworkWorker thread in _update_status / update
    nmNew,          \* the status dict _update_status built (new_data of update)
    nmRead,         \* the latest result of read_status() in another thread
    nmPayload,      \* the latest network_update payload
    \* ---- REST API ----
    apiResponse,    \* the latest response of POST /api/ota/update
    \* ---- ModemWorker data session and ATCommandEngine ----
    engineSer,      \* ATCommandEngine.ser: "open" or "none"
    engineLock,     \* holder of ATCommandEngine.lock, "none" when free
    thr,            \* per thread: the ModemWorker method it runs and where it is
    snd,            \* per thread: position in ATCommandEngine.send, and the answer
    modemW,         \* ModemWorker fields: config apn, _data_connected, brand
    modemModule,    \* ModemModule attributes the session touches
    lastOp,         \* the latest connect_data / disconnect_data call that returned
    device,         \* the brand ATI reports for the attached modem
    \* ---- worker loops and BackendEngine._shutdown ----
    loopPc,         \* per worker: position of its start() loop
    loopRunning,    \* per worker: self.running
    mainPc,         \* the main thread: "serving", "stopping", "sleeping", "exited"
    stopIdx,        \* index of the for loop of _shutdown over self.threads
    killedAt,       \* per worker: where its loop was when the process exited
    \* ---- failover over an unbounded run ----
    primaryUp,      \* the latest iteration found a primary link up and reachable
    \* ---- TachoUploader ----
    tachoDir,       \* days whose daily log <date>.csv is in TACHO_DIR
    upPc,           \* the TachoUploader thread: "sleeping" or "uploading"
    upList,         \* daily_files still to go through in process_daily_uploads
    uploadCount,    \* per daily log: uploads of it the server answered with 200
    tachoUpdates    \* tacho_upload_update payloads published, in order

busVars == <<subscribers, pubEvent, pubPhase, pubIdx, calls, subsAtStart>>
netVars == <<nw, mw, now, cfgDisk, netState, published, lastEval, lastConnReqAt,
             minGap, nShort, sawConnected, nSettings, lastModemEvent>>
otaVars == <<update_queue, otaPc, otaJob, ota_events, otaFiles, staging,
             installDir, venv, restarts, nextJobId, dirsAtTake, resumedFrom>>
concVars == <<registry, lists, subT, pubT, completed>>
wbVars == <<bootPc, wsubs, tracking, stack, deliveries, top, nPub>>
modVars == <<nmState, nmPc, nmNew, nmRead, nmPayload>>
apiVars == <<apiResponse>>
mdmVars == <<engineSer, engineLock, thr, snd, modemW, modemModule, lastOp, device>>
loopVars == <<loopPc, loopRunning, mainPc, stopIdx, killedAt>>
foVars == <<primaryUp>>
tachoVars == <<tachoDir, upPc, upList, uploadCount, tachoUpdates>>
thrVars == <<mdmVars, loopVars, foVars, tachoVars>>
extVars == <<concVars, wbVars, modVars, apiVars, thrVars>>
coreVars == <<busVars, netVars, otaVars>>
notModem == <<coreVars, concVars, wbVars, modVars, apiVars, loopVars, foVars,
              tachoVars>>
notLoops == <<coreVars, concVars, wbVars, modVars, apiVars, mdmVars, foVars,
              tachoVars>>
notTacho == <<coreVars, concVars, wbVars, modVars, apiVars, mdmVars, loopVars,
              foVars>>
vars == <<busVars, netVars, otaVars, extVars>>

(***************************************************************************)
(* Bounds of the model.                                                    *)
(***************************************************************************)
MaxSubs == 4        \* subscribe calls made in a run of SpecBus
StartTime == 100    \* time.time() when the NetworkWorker thread starts
MaxTime == 260      \* the clock stops here
MaxShort == 1       \* iterations of a run that follow the one before after INTERVAL
MaxSettings == 1    \* apply_settings calls made in a run of SpecNet
NoGap == 1000       \* minGap before two requests were published (above MaxTime)
MaxJobs == 2        \* queue_update calls made in a run of SpecOTA
MaxPub == 2         \* outermost publish calls made in a run of SpecBridge
MaxFailures == 3    \* _consecutive_failures goes no higher in a run of SpecFailover
MaxDays == 3        \* daily logs that may be in TACHO_DIR
MaxUploads == 2     \* successful uploads of one daily log in a run of SpecTacho

(***************************************************************************)
(* IPCRouter                                                               *)
(***************************************************************************)
WILDCARD == "*"

\* Event names published by the workers (none of them publishes "*").
Topics == {"network_update", "ota_status"}

\* Callbacks: two that return and one that raises an Exception.
Handlers == {"ok1", "throwing", "ok2"}

Behaviour(h) == IF h = "throwing" THEN "raise" ELSE "return"

\* self.subscribers = {}
NoSubscribers == [n \in {} |-> <<>>]

\* subscribe: create the list on first use, append the callback
SubscribeTo(subs, name, h) ==
    LET withKey == IF name \in DOMAIN subs
                   THEN subs
                   ELSE [n \in DOMAIN subs \cup {name} |->
                            IF n = name THEN <<>> ELSE subs[n]]
    IN  [withKey EXCEPT ![name] = Append(@, h)]

\* The list a publish loop iterates: the live list under a key, nothing when
\* the key is absent ("if event_name in self.subscribers").
ListOf(subs, name) == IF name \in DOMAIN subs THEN subs[name] ELSE <<>>

\* publish: the exact-match loop runs first, the wildcard loop second.
PhasesWildFirst == <<"wild", "exact">>
Phases == <<"exact", "wild">>

KeyOf(phase, event) == IF phase = "exact" THEN event ELSE WILDCARD

\* try: callback(data) / except Exception: print(...)
CallbackGuardNoTry(outcome) == IF outcome = "raise" THEN "propagated" ELSE "returned"
CallbackGuard(outcome) == IF outcome = "raise" THEN "swallowed" ELSE "returned"

RECURSIVE TotalSubs(_, _)
TotalSubs(subs, names) ==
    IF names = {} THEN 0
    ELSE LET n == CHOOSE x \in names : TRUE
         IN  Len(subs[n]) + TotalSubs(subs, names \ {n})

Subscribe(name, h) ==
    /\ TotalSubs(subscribers, DOMAIN subscribers) < MaxSubs
    /\ subscribers' = SubscribeTo(subscribers, name, h)
    /\ UNCHANGED <<pubEvent, pubPhase, pubIdx, calls, subsAtStart>>
    /\ UNCHANGED <<netVars, otaVars, extVars>>

\* A publish call begins (any earlier call has returned).
PublishBegin(event) ==
    /\ pubPhase \in {"idle", "returned"}
    /\ pubEvent' = event
    /\ pubPhase' = Phases[1]
    /\ pubIdx' = 1
    /\ calls' = <<>>
    /\ subsAtStart' = subscribers
    /\ UNCHANGED subscribers
    /\ UNCHANGED <<netVars, otaVars, extVars>>

\* One step of a for loop: invoke the next callback of the live list, or,
\* the list exhausted, go on to the next loop or return.
PublishStep ==
    /\ pubPhase \in {"exact", "wild"}
    /\ LET list == ListOf(subscribers, KeyOf(pubPhase, pubEvent))
       IN  IF pubIdx <= Len(list)
           THEN /\ calls' = Append(calls, list[pubIdx])
                /\ IF CallbackGuard(Behaviour(list[pubIdx])) = "propagated"
                   THEN pubPhase' = "raised" /\ pubIdx' = pubIdx
                   ELSE pubPhase' = pubPhase /\ pubIdx' = pubIdx + 1
           ELSE /\ calls' = calls
                /\ pubIdx' = 1
                /\ pubPhase' = IF pubPhase = Phases[1] THEN Phases[2] ELSE "returned"
    /\ UNCHANGED <<subscribers, pubEvent, subsAtStart>>
    /\ UNCHANGED <<netVars, otaVars, extVars>>

BusInit ==
    /\ subscribers = NoSubscribers
    /\ pubEvent = "none"
    /\ pubPhase = "idle"
    /\ pubIdx = 1
    /\ calls = <<>>
    /\ subsAtStart = NoSubscribers

(***************************************************************************)
(* NetworkWorker and the ModemWorker handlers it reaches through the bus   *)
(***************************************************************************)
INTERVAL == 3
FAILOVER_CHECK_INTERVAL == 30
FAILOVER_RETRY_DELAY == 60

\* modem.apn values of the configuration file; "" is "not set".
APNs == {"", "internet"}

\* Seconds from one sample of time.time() by the NetworkWorker loop to the
\* next: at least the sleep of INTERVAL, longer when the iteration blocks.
Deltas == {INTERVAL, FAILOVER_CHECK_INTERVAL}

\* What the attach sequence of connect_data meets once it is past the APN check.
ConnectOutcomes == {"modem_unavailable", "not_registered", "no_ip", "ip_assigned"}

Ev(name) == [event |-> name, connected |-> FALSE]
DataEv(c) == [event |-> "modem_data_connected", connected |-> c]

CountEv(events, name) == Cardinality({i \in 1..Len(events) : events[i].event = name})

\* NetworkWorker._load_failover_config
LoadFailoverConfig(w, disk) ==
    [w EXCEPT !.failover_enabled = disk.failover_enabled,
              !.failover_apn = disk.apn]

\* NetworkWorker._on_modem_data_changed
OnModemDataIgnored(w, connected) == w
OnModemDataChanged(w, connected) == [w EXCEPT !.failover_active = connected]

\* The bus delivers the modem_data_connected events of a nested publish to
\* NetworkWorker._on_modem_data_changed, in order.
RECURSIVE Deliver(_, _)
Deliver(w, events) ==
    IF events = <<>> THEN w
    ELSE Deliver(IF Head(events).event = "modem_data_connected"
                 THEN OnModemDataChanged(w, Head(events).connected)
                 ELSE w,
                 Tail(events))

\* connected of the last modem_data_connected among events, prev if none.
RECURSIVE LastDataEvent(_, _)
LastDataEvent(events, prev) ==
    IF events = <<>> THEN prev
    ELSE LastDataEvent(Tail(events),
                       IF Head(events).event = "modem_data_connected"
                       THEN (IF Head(events).connected THEN "true" ELSE "false")
                       ELSE prev)

\* ModemWorker.connect_data, reached through _handle_connect_request
ConnectData(m, outcome) ==
    IF m.data_connected THEN [m |-> m, events |-> <<>>]
    ELSE IF m.apn = "" THEN [m |-> m, events |-> <<>>]
    ELSE IF outcome = "ip_assigned"
         THEN [m |-> [m EXCEPT !.data_connected = TRUE],
               events |-> <<DataEv(TRUE)>>]
         ELSE [m |-> m, events |-> <<>>]

\* ModemWorker.disconnect_data, reached through _handle_disconnect_request
\* (ATCommandEngine.send returns [] on failure, it does not raise)
DisconnectData(m) ==
    [m |-> [m EXCEPT !.data_connected = FALSE], events |-> <<DataEv(FALSE)>>]

\* Failover is needed from this many consecutive failures on.
FailureThresholdOne == 2 - 1
FailureThreshold == 2

\* The throttle of modem connect attempts.
ThrottledNever(t, w) == FALSE
Throttled(t, w) == t - w.last_modem_attempt < FAILOVER_RETRY_DELAY

\* The recovery branch: primary link up and internet reachable.
RecoverAlways(w, m) ==
    LET d == DisconnectData(m)
        w2 == Deliver(w, d.events)
    IN  [w |-> [w2 EXCEPT !.failover_active = FALSE,
                          !.consecutive_failures = 0],
         m |-> d.m,
         events |-> <<Ev("modem_disconnect_request")>> \o d.events]
Recover(w, m) ==
    IF w.failover_active
    THEN LET d == DisconnectData(m)
             w2 == Deliver(w, d.events)
         IN  [w |-> [w2 EXCEPT !.failover_active = FALSE,
                               !.consecutive_failures = 0],
              m |-> d.m,
              events |-> <<Ev("modem_disconnect_request")>> \o d.events]
    ELSE [w |-> [w EXCEPT !.consecutive_failures = 0], m |-> m, events |-> <<>>]

\* "if not self.failover_enabled or not self.failover_apn: return" is not taken.
FailoverConfiguredAlways(w) == TRUE
FailoverConfigured(w) == w.failover_enabled /\ w.failover_apn # ""

\* "Only check every FAILOVER_CHECK_INTERVAL seconds".
TooSoonNever(t, w) == FALSE
TooSoon(t, w) == t - w.last_failover_check < FAILOVER_CHECK_INTERVAL

\* NetworkWorker._check_failover at time t; link: WiFi or Ethernet connected,
\* inet: _has_internet(), co: what connect_data meets.
CheckFailover(w, m, t, link, inet, co) ==
    IF ~FailoverConfigured(w)
    THEN [w |-> w, m |-> m, events |-> <<>>, eval |-> "disabled"]
    ELSE IF TooSoon(t, w)
    THEN [w |-> w, m |-> m, events |-> <<>>, eval |-> "too_soon"]
    ELSE
      LET w1 == [w EXCEPT !.last_failover_check = t] IN
      IF link /\ inet
      THEN LET r == Recover(w1, m)
           IN  [w |-> r.w, m |-> r.m, events |-> r.events, eval |-> "ok"]
      ELSE
        LET w2 == [w1 EXCEPT !.consecutive_failures = @ + 1]
            kind == IF link THEN "fail_probe" ELSE "fail_nolink"
        IN  IF w2.consecutive_failures >= FailureThreshold /\ ~w2.failover_active
            THEN IF Throttled(t, w2)
                 THEN [w |-> w2, m |-> m, events |-> <<>>, eval |-> kind]
                 ELSE LET w3 == [w2 EXCEPT !.last_modem_attempt = t]
                          c == ConnectData(m, co)
                      IN  [w |-> Deliver(w3, c.events), m |-> c.m,
                           events |-> <<Ev("modem_connect_request")>> \o c.events,
                           eval |-> kind]
            ELSE [w |-> w2, m |-> m, events |-> <<>>, eval |-> kind]

\* NetworkWorker._determine_active_interface
DetermineActiveInterface(wifi, eth, modem_data) ==
    IF eth THEN "ethernet"
    ELSE IF wifi THEN "wifi"
    ELSE IF modem_data THEN "modem"
    ELSE "none"

\* NetworkWorker._update_status; BackendEngine builds NetworkWorker without a
\* modem module, so modem_data stays False.
UpdateStatus(w, wifi, eth) ==
    [active |-> DetermineActiveInterface(wifi, eth, FALSE),
     wifi |-> wifi, ethernet |-> eth, modem_data |-> FALSE,
     failover_active |-> w.failover_active]

\* One iteration of the NetworkWorker.start loop: _update_status, then
\* _check_failover, both on the same reading of the links.
NetworkWorkerIteration ==
    \E d \in Deltas, wifi \in BOOLEAN, eth \in BOOLEAN,
       inet \in BOOLEAN, co \in ConnectOutcomes :
        /\ now + d <= MaxTime
        /\ d = INTERVAL => nShort < MaxShort
        /\ nShort' = IF d = INTERVAL THEN nShort + 1 ELSE nShort
        /\ LET t == now + d
               r == CheckFailover(nw, mw, t, wifi \/ eth, inet, co)
           IN  /\ now' = t
               /\ netState' = UpdateStatus(nw, wifi, eth)
               /\ nw' = r.w
               /\ mw' = r.m
               /\ published' = <<Ev("network_update")>> \o r.events
               /\ lastEval' = r.eval
               /\ lastConnReqAt' =
                    IF CountEv(r.events, "modem_connect_request") > 0
                    THEN t ELSE lastConnReqAt
               /\ minGap' =
                    IF CountEv(r.events, "modem_connect_request") > 0
                       /\ lastConnReqAt # 0 /\ t - lastConnReqAt < minGap
                    THEN t - lastConnReqAt ELSE minGap
               /\ lastModemEvent' = LastDataEvent(r.events, lastModemEvent)
               /\ sawConnected' =
                    IF r.eval = "ok" THEN FALSE
                    ELSE sawConnected \/ DataEv(TRUE) \in {r.events[i] : i \in 1..Len(r.events)}
        /\ UNCHANGED <<cfgDisk, nSettings>>
        /\ UNCHANGED <<busVars, otaVars, extVars>>

\* SettingsHandler.apply_settings with a modem section carrying apn:
\* _apply_modem publishes modem_config_changed (ModemWorker._reload_config
\* re-reads the file), then save_config writes the file, then config_changed
\* is published (NetworkWorker._reload_config re-reads the file).
ApplySettings(apn) ==
    /\ nSettings < MaxSettings
    /\ nSettings' = nSettings + 1
    /\ mw' = [mw EXCEPT !.apn = cfgDisk.apn]
    /\ cfgDisk' = [cfgDisk EXCEPT !.apn = apn]
    /\ nw' = LoadFailoverConfig(nw, cfgDisk')
    /\ published' = <<Ev("modem_config_changed"), Ev("config_changed")>>
    /\ lastEval' = "none"
    /\ UNCHANGED <<now, netState, lastConnReqAt, minGap, nShort, sawConnected,
                   lastModemEvent>>
    /\ UNCHANGED <<busVars, otaVars, extVars>>

\* After BackendEngine.__init__: both workers have loaded the same file.
NetInit ==
    /\ cfgDisk \in [apn : APNs, failover_enabled : BOOLEAN]
    /\ nw = [failover_enabled |-> cfgDisk.failover_enabled,
             failover_apn |-> cfgDisk.apn,
             failover_active |-> FALSE,
             last_failover_check |-> 0,
             last_modem_attempt |-> 0,
             consecutive_failures |-> 0]
    /\ mw = [apn |-> cfgDisk.apn, data_connected |-> FALSE]
    /\ now = StartTime
    /\ netState = [active |-> "none", wifi |-> FALSE, ethernet |-> FALSE,
                   modem_data |-> FALSE, failover_active |-> FALSE]
    /\ published = <<>>
    /\ lastEval = "none"
    /\ lastConnReqAt = 0
    /\ minGap = NoGap
    /\ nShort = 0
    /\ sawConnected = FALSE
    /\ nSettings = 0
    /\ lastModemEvent = "none"


(***************************************************************************)
(* OTAManager                                                              *)
(***************************************************************************)
\* Update packages a client may name: a zip with a backend/ directory and a
\* tarball without one.
URLs == {"http://srv/app.zip", "http://srv/docs.tgz"}

\* One more: a zip whose top level holds a regular file named backend.
Packages == URLs \cup {"http://srv/flat.zip"}

\* url.split("/")[-1]
Filename(url) ==
    IF url = "http://srv/app.zip" THEN "app.zip"
    ELSE IF url = "http://srv/docs.tgz" THEN "docs.tgz"
    ELSE "flat.zip"

\* The bytes the server holds under a URL.
Remote(url) ==
    IF url = "http://srv/app.zip" THEN <<1, 2>>
    ELSE IF url = "http://srv/docs.tgz" THEN <<3, 4>>
    ELSE <<5, 6>>

\* The top-level directories of a well-formed archive with these bytes.
PayloadOf(content) ==
    IF content = <<1, 2>> THEN "app"
    ELSE IF content = <<3, 4>> THEN "docs"
    ELSE IF content = <<5, 6>> THEN "flat"
    ELSE "none"

\* os.path.exists(os.path.join(STAGING_DIR, "backend")): true of a directory
\* and of a regular file.
HasBackend(stagingDir) == stagingDir \in {"app", "flat"}

\* STAGING_DIR/backend is a directory (copytree can list it).
BackendIsDir(stagingDir) == stagingDir = "app"

\* sha256 arguments: None, "", or a hex digest in lower or upper case (the
\* digest of app.zip on the server, which is not the digest of docs.tgz).
NoneSha == [kind |-> "none", h |-> <<>>, upper |-> FALSE]
EmptySha == [kind |-> "empty", h |-> <<>>, upper |-> FALSE]
Hex(h, upper) == [kind |-> "hex", h |-> h, upper |-> upper]

\* hashlib.sha256(content).hexdigest(): lower-case hex, one per content
Sha256Hex(content) == Hex(content, FALSE)

\* str.lower()
Lower(s) == [s EXCEPT !.upper = FALSE]

\* "if sha256:" is false for None and for ""
Truthy(sha) == sha.kind = "hex"

Shas == {NoneSha, EmptySha, Hex(<<1, 2>>, FALSE), Hex(<<1, 2>>, TRUE)}

\* An ota_status payload; job is the number of the queue_update call it
\* belongs to (not part of the payload).
E(state, job) == [state |-> state, msg |-> "", job |-> job]
Err(msg, job) == [state |-> "error", msg |-> msg, job |-> job]

\* What the network does to one download.
DownloadOutcomes == {"complete", "http_error", "interrupted"}
\* Whether the server honours a Range header (206 / 416) or ignores it (200).
ServerModes == {"range", "norange"}

\* headers["Range"] = f"bytes={os.path.getsize(path)}-"
RangeStartOffByOne(old) == IF Len(old) > 0 THEN Len(old) - 1 ELSE 0
RangeStart(old) == Len(old)

\* No Range header was sent, or the server did not answer it.
NoResume == 0 - 1

\* OTAManager._download: files maps the names present in OTA_DIR to their
\* bytes; cut is the number of body bytes written before an interruption.
Download(files, url, out, mode, cut) ==
    LET fn == Filename(url)
        exists == fn \in DOMAIN files
        old == IF exists THEN files[fn] ELSE <<>>
        remote == Remote(url)
        unsatisfiable == exists /\ mode = "range" /\ RangeStart(old) >= Len(remote)
        body == IF exists /\ mode = "range"
                THEN SubSeq(remote, RangeStart(old) + 1, Len(remote))
                ELSE remote
        written == IF out = "interrupted"
                   THEN SubSeq(body, 1, IF cut < Len(body) THEN cut ELSE Len(body))
                   ELSE body
        new == IF exists THEN old \o written ELSE written
    IN  IF out = "http_error" \/ unsatisfiable
        THEN [ok |-> FALSE, files |-> files, resumed |-> NoResume]
        ELSE [ok |-> out = "complete",
              resumed |-> IF out = "complete" /\ exists /\ mode = "range"
                          THEN RangeStart(old) ELSE NoResume,
              files |-> [n \in DOMAIN files \cup {fn} |->
                            IF n = fn THEN new ELSE files[n]]]

\* open(path, "rb") / ZipFile(path) inside the helpers' try blocks: a file
\* that is not there makes the helper return False, as an empty one does.
ReadFile(files, fn) == IF fn \in DOMAIN files THEN files[fn] ELSE <<>>

\* OTAManager._verify_sha256
VerifyAlwaysTrue(content, expected) == TRUE
VerifySha256(content, expected) == Lower(Sha256Hex(content)) = Lower(expected)

\* OTAManager._extract_to_staging: the staging directory is wiped first;
\* env is what the file system does to a well-formed extraction.
SupportedFormat(fn) == fn \in {"app.zip", "docs.tgz", "flat.zip"}
ExtractToStaging(fn, content, env) ==
    IF ~SupportedFormat(fn) THEN [ok |-> FALSE, staging |-> "empty"]
    ELSE IF PayloadOf(content) = "none" THEN [ok |-> FALSE, staging |-> "empty"]
    ELSE IF env = "io_error" THEN [ok |-> FALSE, staging |-> "partial"]
    ELSE [ok |-> TRUE, staging |-> PayloadOf(content)]

\* OTAManager._replace_backend: rmtree of the install directory, then
\* copytree, which raises at once on a source that is not a directory.
ReplaceBackend(stagingDir, install, env) ==
    IF ~HasBackend(stagingDir) THEN [ok |-> FALSE, install |-> install]
    ELSE IF ~BackendIsDir(stagingDir) THEN [ok |-> FALSE, install |-> "missing"]
    ELSE IF env = "io_error" THEN [ok |-> FALSE, install |-> "partial"]
    ELSE [ok |-> TRUE, install |-> stagingDir]

\* OTAManager._rebuild_venv: rmtree of the venv, python3 -m venv, pip install
RebuildVenv(env) ==
    IF env = "io_error" THEN [ok |-> FALSE, venv |-> "broken"]
    ELSE [ok |-> TRUE, venv |-> "rebuilt"]

StageEnvs == {"ok", "io_error"}

\* "if sha256:" after the download: verify, or go straight to extraction.
AfterDownloadNoVerify(sha) == "extracting"
AfterDownloadAlwaysVerify(sha) == "verifying"
AfterDownload(sha) == IF Truthy(sha) THEN "verifying" ELSE "extracting"

\* The msg of the error event published when a stage fails; the stage is
\* named by its progress state.
ReasonCodeGeneric(stage) == "failed"
ReasonCode(stage) ==
    CASE stage = "downloading" -> "download_failed"
      [] stage = "verifying" -> "sha256_mismatch"
      [] stage = "extracting" -> "extract_failed"
      [] stage = "installing_backend" -> "backend_install_failed"
      [] stage = "rebuilding_venv" -> "venv_failed"
      [] stage = "restarting" -> "restart_failed"

\* The "return" after an error event: _process_job is left.
AfterErrorFallThrough(nextPc) == nextPc
AfterError(nextPc) == "idle"

\* The body of queue_update: append the job, publish "queued".
QueueUpdateBody(url, sha) ==
    /\ nextJobId <= MaxJobs
    /\ update_queue' = Append(update_queue,
                              [url |-> url, sha256 |-> sha, id |-> nextJobId])
    /\ ota_events' = Append(ota_events, E("queued", nextJobId))
    /\ nextJobId' = nextJobId + 1
    /\ resumedFrom' = NoResume
    /\ UNCHANGED <<otaPc, otaJob, otaFiles, staging, installDir, venv, restarts,
                   dirsAtTake>>

\* queue_update called on the manager.
QueueUpdate(url, sha) ==
    /\ QueueUpdateBody(url, sha)
    /\ UNCHANGED <<busVars, netVars, extVars>>

\* POST /api/ota/update: "missing url" without a url, else queue_update and
\* the "queued" response.
ApiOtaUpdate(url, sha) ==
    /\ IF url = ""
       THEN /\ apiResponse' = "missing url"
            /\ UNCHANGED otaVars
       ELSE /\ QueueUpdateBody(url, sha)
            /\ apiResponse' = "queued"
    /\ UNCHANGED <<busVars, netVars, concVars, wbVars, modVars, thrVars>>

\* start loop: "if self.update_queue: job = self.update_queue.pop(0)", and
\* the first publish of _process_job.
QueuePopLast(q) == [job |-> q[Len(q)], rest |-> SubSeq(q, 1, Len(q) - 1)]
QueuePop(q) == [job |-> Head(q), rest |-> Tail(q)]

OTATake ==
    /\ otaPc = "idle"
    /\ update_queue # <<>>
    /\ LET p == QueuePop(update_queue)
       IN  /\ otaJob' = p.job
           /\ update_queue' = p.rest
           /\ ota_events' = Append(ota_events, E("downloading", p.job.id))
    /\ otaPc' = "downloading"
    /\ dirsAtTake' = <<staging, installDir, venv>>
    /\ resumedFrom' = NoResume
    /\ UNCHANGED <<otaFiles, staging, installDir, venv, restarts, nextJobId>>
    /\ UNCHANGED <<busVars, netVars, extVars>>

\* _download, then "downloaded" and the next stage's progress event, or the error
OTADownload ==
    /\ otaPc = "downloading"
    /\ \E out \in DownloadOutcomes, mode \in ServerModes, cut \in 0..1 :
         LET r == Download(otaFiles, otaJob.url, out, mode, cut)
             next == AfterDownload(otaJob.sha256)
         IN  /\ otaFiles' = r.files
             /\ resumedFrom' = r.resumed
             /\ IF r.ok
                THEN /\ ota_events' = ota_events \o
                          <<E("downloaded", otaJob.id), E(next, otaJob.id)>>
                     /\ otaPc' = next
                ELSE /\ ota_events' = Append(ota_events, Err(ReasonCode("downloading"), otaJob.id))
                     /\ otaPc' = AfterError(next)
    /\ UNCHANGED <<update_queue, otaJob, staging, installDir, venv, restarts,
                   nextJobId, dirsAtTake>>
    /\ UNCHANGED <<busVars, netVars, extVars>>

OTAVerify ==
    /\ otaPc = "verifying"
    /\ IF VerifySha256(ReadFile(otaFiles, Filename(otaJob.url)), otaJob.sha256)
       THEN /\ ota_events' = ota_events \o
                 <<E("verified", otaJob.id), E("extracting", otaJob.id)>>
            /\ otaPc' = "extracting"
       ELSE /\ ota_events' = Append(ota_events, Err(ReasonCode("verifying"), otaJob.id))
            /\ otaPc' = AfterError("extracting")
    /\ resumedFrom' = NoResume
    /\ UNCHANGED <<update_queue, otaJob, otaFiles, staging, installDir, venv,
                   restarts, nextJobId, dirsAtTake>>
    /\ UNCHANGED <<busVars, netVars, extVars>>

OTAExtract ==
    /\ otaPc = "extracting"
    /\ \E env \in StageEnvs :
         LET fn == Filename(otaJob.url)
             r == ExtractToStaging(fn, ReadFile(otaFiles, fn), env)
         IN  /\ staging' = r.staging
             /\ IF r.ok
                THEN /\ ota_events' = Append(ota_events, E("installing_backend", otaJob.id))
                     /\ otaPc' = "installing_backend"
                ELSE /\ ota_events' = Append(ota_events, Err(ReasonCode("extracting"), otaJob.id))
                     /\ otaPc' = AfterError("installing_backend")
    /\ resumedFrom' = NoResume
    /\ UNCHANGED <<update_queue, otaJob, otaFiles, installDir, venv, restarts,
                   nextJobId, dirsAtTake>>
    /\ UNCHANGED <<busVars, netVars, extVars>>

OTAInstall ==
    /\ otaPc = "installing_backend"
    /\ \E env \in StageEnvs :
         LET r == ReplaceBackend(staging, installDir, env)
         IN  /\ installDir' = r.install
             /\ IF r.ok
                THEN /\ ota_events' = Append(ota_events, E("rebuilding_venv", otaJob.id))
                     /\ otaPc' = "rebuilding_venv"
                ELSE /\ ota_events' = Append(ota_events,
                                             Err(ReasonCode("installing_backend"), otaJob.id))
                     /\ otaPc' = AfterError("rebuilding_venv")
    /\ resumedFrom' = NoResume
    /\ UNCHANGED <<update_queue, otaJob, otaFiles, staging, venv, restarts,
                   nextJobId, dirsAtTake>>
    /\ UNCHANGED <<busVars, netVars, extVars>>

OTARebuildVenv ==
    /\ otaPc = "rebuilding_venv"
    /\ \E env \in StageEnvs :
         LET r == RebuildVenv(env)
         IN  /\ venv' = r.venv
             /\ IF r.ok
                THEN /\ ota_events' = Append(ota_events, E("restarting", otaJob.id))
                     /\ otaPc' = "restarting"
                ELSE /\ ota_events' = Append(ota_events, Err(ReasonCode("rebuilding_venv"), otaJob.id))
                     /\ otaPc' = AfterError("restarting")
    /\ resumedFrom' = NoResume
    /\ UNCHANGED <<update_queue, otaJob, otaFiles, staging, installDir, restarts,
                   nextJobId, dirsAtTake>>
    /\ UNCHANGED <<busVars, netVars, extVars>>

\* _restart_backend: os.system(...) == 0
OTARestart ==
    /\ otaPc = "restarting"
    /\ \E exit \in {0, 1} :
         IF exit = 0
         THEN /\ restarts' = restarts + 1
              /\ ota_events' = Append(ota_events, E("completed", otaJob.id))
              /\ otaPc' = "idle"
         ELSE /\ restarts' = restarts
              /\ ota_events' = Append(ota_events, Err(ReasonCode("restarting"), otaJob.id))
              /\ otaPc' = AfterError("idle")
    /\ resumedFrom' = NoResume
    /\ UNCHANGED <<update_queue, otaJob, otaFiles, staging, installDir, venv,
                   nextJobId, dirsAtTake>>
    /\ UNCHANGED <<busVars, netVars, extVars>>

\* OTAWorker.start as BackendEngine runs it: OTAManager has none of
\* get_next_task, check_for_updates, get_pending_update, so task stays None
\* and the iteration only sleeps.
OTAWorkerIteration ==
    /\ UNCHANGED vars

NoJob == [url |-> "", sha256 |-> NoneSha, id |-> 0]

\* After OTAManager.__init__: empty queue, OTA_DIR and STAGING_DIR exist.
OTAInit ==
    /\ update_queue = <<>>
    /\ otaPc = "idle"
    /\ otaJob = NoJob
    /\ ota_events = <<>>
    /\ otaFiles = [n \in {} |-> <<>>]
    /\ staging = "empty"
    /\ installDir = "old"
    /\ venv = "old"
    /\ restarts = 0
    /\ nextJobId = 1
    /\ dirsAtTake = <<"empty", "old", "old">>
    /\ resumedFrom = NoResume

(***************************************************************************)
(* IPCRouter.subscribe and IPCRouter.publish called from several threads,  *)
(* one bytecode-level step at a time. The dict and its lists are objects:  *)
(* a thread that has loaded a list keeps working on that list object.      *)
(***************************************************************************)
SubscriberThreads == {"s1", "s2"}
PublisherThreads == {"p1", "p2"}

\* The callback a subscribing thread registers: its own.
CallbackOf(t) == t

IdleSub == [pc |-> "idle", name |-> "none", ref |-> 0]
IdlePub == [pc |-> "idle", event |-> "none", phase |-> "none", ref |-> 0,
            idx |-> 1, calls |-> <<>>, snap |-> {}]

\* subscribe is entered: "if event_name not in self.subscribers" is next.
SubCall(t, name) ==
    /\ subT[t].pc = "idle"
    /\ subT' = [subT EXCEPT ![t] = [pc |-> "check", name |-> name, ref |-> 0]]
    /\ UNCHANGED <<registry, lists, pubT, completed>>
    /\ UNCHANGED <<coreVars, wbVars, modVars, apiVars, thrVars>>

\* if event_name not in self.subscribers
SubCheck(t) ==
    /\ subT[t].pc = "check"
    /\ subT' = [subT EXCEPT ![t].pc =
                   IF subT[t].name \in DOMAIN registry THEN "lookup" ELSE "create"]
    /\ UNCHANGED <<registry, lists, pubT, completed>>
    /\ UNCHANGED <<coreVars, wbVars, modVars, apiVars, thrVars>>

\* self.subscribers[event_name] = []
SubCreate(t) ==
    /\ subT[t].pc = "create"
    /\ lists' = Append(lists, <<>>)
    /\ registry' = [n \in DOMAIN registry \cup {subT[t].name} |->
                       IF n = subT[t].name THEN Len(lists) + 1 ELSE registry[n]]
    /\ subT' = [subT EXCEPT ![t].pc = "lookup"]
    /\ UNCHANGED <<pubT, completed>>
    /\ UNCHANGED <<coreVars, wbVars, modVars, apiVars, thrVars>>

\* self.subscribers[event_name]  (the list object .append is called on)
SubLookup(t) ==
    /\ subT[t].pc = "lookup"
    /\ subT' = [subT EXCEPT ![t].pc = "append", ![t].ref = registry[subT[t].name]]
    /\ UNCHANGED <<registry, lists, pubT, completed>>
    /\ UNCHANGED <<coreVars, wbVars, modVars, apiVars, thrVars>>

\* .append(callback), and subscribe returns
SubAppend(t) ==
    /\ subT[t].pc = "append"
    /\ lists' = [lists EXCEPT ![subT[t].ref] = Append(@, CallbackOf(t))]
    /\ completed' = completed \cup {<<subT[t].name, CallbackOf(t)>>}
    /\ subT' = [subT EXCEPT ![t].pc = "done"]
    /\ UNCHANGED <<registry, pubT>>
    /\ UNCHANGED <<coreVars, wbVars, modVars, apiVars, thrVars>>

\* publish is entered
PubCall(p, event) ==
    /\ pubT[p].pc = "idle"
    /\ pubT' = [pubT EXCEPT ![p] = [pc |-> "check", event |-> event,
                                    phase |-> Phases[1], ref |-> 0, idx |-> 1,
                                    calls |-> <<>>, snap |-> completed]]
    /\ UNCHANGED <<registry, lists, subT, completed>>
    /\ UNCHANGED <<coreVars, wbVars, modVars, apiVars, thrVars>>

\* if key in self.subscribers: for callback in self.subscribers[key]
\* (the iterator holds the list object), else the next loop or the return
PubCheck(p) ==
    /\ pubT[p].pc = "check"
    /\ LET key == KeyOf(pubT[p].phase, pubT[p].event)
       IN  IF key \in DOMAIN registry
           THEN pubT' = [pubT EXCEPT ![p].pc = "loop", ![p].ref = registry[key],
                                     ![p].idx = 1]
           ELSE pubT' = [pubT EXCEPT ![p].pc =
                            IF pubT[p].phase = Phases[1] THEN "check" ELSE "returned",
                                     ![p].phase = Phases[2]]
    /\ UNCHANGED <<registry, lists, subT, completed>>
    /\ UNCHANGED <<coreVars, wbVars, modVars, apiVars, thrVars>>

\* one iteration of the for loop: the list iterator yields the element at
\* its index of the list as it is now, or is exhausted
PubIter(p) ==
    /\ pubT[p].pc = "loop"
    /\ LET list == lists[pubT[p].ref]
       IN  IF pubT[p].idx <= Len(list)
           THEN pubT' = [pubT EXCEPT ![p].calls = Append(@, list[pubT[p].idx]),
                                     ![p].idx = @ + 1]
           ELSE pubT' = [pubT EXCEPT ![p].pc =
                            IF pubT[p].phase = Phases[1] THEN "check" ELSE "returned",
                                     ![p].phase = Phases[2]]
    /\ UNCHANGED <<registry, lists, subT, completed>>
    /\ UNCHANGED <<coreVars, wbVars, modVars, apiVars, thrVars>>

\* IPCRouter.__init__: self.subscribers = {}; no call in progress
ConcInit ==
    /\ registry = [n \in {} |-> 0]
    /\ lists = <<>>
    /\ subT = [t \in SubscriberThreads |-> IdleSub]
    /\ pubT = [p \in PublisherThreads |-> IdlePub]
    /\ completed = {}

(***************************************************************************)
(* The router as BackendEngine wires it: the workers' subscriptions, the   *)
(* WebSocketBridge on "*", the tagging wrapper around router.publish, and  *)
(* handlers that publish from inside a publish.                            *)
(***************************************************************************)
HandleConnect == "_handle_connect_request"
HandleDisconnect == "_handle_disconnect_request"
OnModemData == "_on_modem_data_changed"
ForwardAny == "forward_any_event"

\* Subscriptions made by ModemWorker.__init__ and NetworkWorker.__init__.
WorkerSubscriptions ==
    SubscribeTo(SubscribeTo(SubscribeTo(NoSubscribers,
        "modem_connect_request", HandleConnect),
        "modem_disconnect_request", HandleDisconnect),
        "modem_data_connected", OnModemData)

\* Events the NetworkWorker thread publishes.
WorkerEvents == {"network_update", "modem_connect_request", "modem_disconnect_request"}

NoTag == "none"

\* enable_event_tracking's wrapped(): payload["__event__"] = event; the
\* plain publish passes the payload as it is.
Tagged(event, wrapped) == IF wrapped THEN event ELSE NoTag

\* The event a handler publishes while it runs, "none" if it publishes
\* nothing: connect_data publishes when an IP address was assigned,
\* disconnect_data always.
NestedEvent(h, outcome) ==
    IF h = HandleDisconnect THEN "modem_data_connected"
    ELSE IF h = HandleConnect /\ outcome = "ip_assigned" THEN "modem_data_connected"
    ELSE "none"

\* publish takes no lock: a call made while other calls are on the stack
\* enters at once.
PublishEntryLocked(st) == st = <<>>
PublishEntry(st) == TRUE

Frame(event, wrapped) ==
    [event |-> event, tag |-> Tagged(event, wrapped), phase |-> Phases[1], idx |-> 1]

\* The frame's handler has returned: the for loop goes on.
Resume(st) ==
    IF st = <<>> THEN st
    ELSE [st EXCEPT ![Len(st)].idx = @ + 1]

\* bridge = WebSocketBridge(ws_server): router.subscribe("*", ...)
BootBridge ==
    /\ bootPc = "workers_started"
    /\ bootPc' = "bridge_subscribed"
    /\ wsubs' = SubscribeTo(wsubs, WILDCARD, ForwardAny)
    /\ UNCHANGED <<tracking, stack, deliveries, top, nPub>>
    /\ UNCHANGED <<coreVars, concVars, modVars, apiVars, thrVars>>

\* WebSocketBridge.enable_event_tracking(): router.publish = wrapped
BootTracking ==
    /\ bootPc = "bridge_subscribed"
    /\ bootPc' = "tracking_enabled"
    /\ tracking' = TRUE
    /\ UNCHANGED <<wsubs, stack, deliveries, top, nPub>>
    /\ UNCHANGED <<coreVars, concVars, modVars, apiVars, thrVars>>

\* A worker calls router.publish(event, {...}) from its loop.
WPublish(event) ==
    /\ stack = <<>>
    /\ nPub < MaxPub
    /\ nPub' = nPub + 1
    /\ stack' = <<Frame(event, tracking)>>
    /\ deliveries' = <<>>
    /\ top' = [event |-> event, wired |-> WILDCARD \in DOMAIN wsubs]
    /\ UNCHANGED <<bootPc, wsubs, tracking>>
    /\ UNCHANGED <<coreVars, concVars, modVars, apiVars, thrVars>>

\* The innermost publish invokes its next callback; the callback returns,
\* or calls router.publish itself.
WInvoke ==
    /\ stack # <<>>
    /\ LET f == stack[Len(stack)]
           list == ListOf(wsubs, KeyOf(f.phase, f.event))
       IN  /\ f.idx <= Len(list)
           /\ \E outcome \in ConnectOutcomes :
                LET h == list[f.idx]
                    inner == NestedEvent(h, outcome)
                IN  /\ inner # "none" => PublishEntry(stack)
                    /\ deliveries' = Append(deliveries,
                          [handler |-> h, event |-> f.event, tag |-> f.tag,
                           depth |-> Len(stack)])
                    /\ stack' = IF inner = "none"
                                THEN Resume(stack)
                                ELSE Append(stack, Frame(inner, tracking))
    /\ UNCHANGED <<bootPc, wsubs, tracking, top, nPub>>
    /\ UNCHANGED <<coreVars, concVars, modVars, apiVars, thrVars>>

\* The innermost publish has exhausted a list: the wildcard loop is next,
\* or publish returns to its caller, a handler of the publish below it.
WAdvance ==
    /\ stack # <<>>
    /\ LET f == stack[Len(stack)]
           list == ListOf(wsubs, KeyOf(f.phase, f.event))
       IN  /\ f.idx > Len(list)
           /\ stack' = IF f.phase = Phases[1]
                       THEN [stack EXCEPT ![Len(stack)].phase = Phases[2],
                                          ![Len(stack)].idx = 1]
                       ELSE Resume(SubSeq(stack, 1, Len(stack) - 1))
    /\ UNCHANGED <<bootPc, wsubs, tracking, deliveries, top, nPub>>
    /\ UNCHANGED <<coreVars, concVars, modVars, apiVars, thrVars>>

\* BackendEngine.start has started the worker threads (main.py:118-121).
WBInit ==
    /\ bootPc = "workers_started"
    /\ wsubs = WorkerSubscriptions
    /\ tracking = FALSE
    /\ stack = <<>>
    /\ deliveries = <<>>
    /\ top = [event |-> "none", wired |-> FALSE]
    /\ nPub = 0

(***************************************************************************)
(* NetworkModule: NetworkWorker._update_status merges a status into        *)
(* NetworkModule.state one key at a time (NetworkModule.update) while the  *)
(* REST and uploader threads call read_status().                           *)
(***************************************************************************)
\* NetworkModule.__init__
InitialStatus == [active |-> "none", wifi |-> FALSE, ethernet |-> FALSE,
                  modem_data |-> FALSE, failover_active |-> FALSE]

\* _update_status up to the call of self.net.update(status)
NMUpdateBegin(wifi, eth) ==
    /\ nmPc = "idle"
    /\ nmNew' = UpdateStatus(nw, wifi, eth)
    /\ nmPc' = "wifi"
    /\ UNCHANGED <<nmState, nmRead, nmPayload>>
    /\ UNCHANGED <<coreVars, concVars, wbVars, apiVars, thrVars>>

\* self.state["wifi"].update(new_data["wifi"])
NMSetWifi ==
    /\ nmPc = "wifi"
    /\ nmState' = [nmState EXCEPT !.wifi = nmNew.wifi]
    /\ nmPc' = "ethernet"
    /\ UNCHANGED <<nmNew, nmRead, nmPayload>>
    /\ UNCHANGED <<coreVars, concVars, wbVars, apiVars, thrVars>>

\* self.state["ethernet"].update(new_data["ethernet"])
NMSetEthernet ==
    /\ nmPc = "ethernet"
    /\ nmState' = [nmState EXCEPT !.ethernet = nmNew.ethernet]
    /\ nmPc' = "active"
    /\ UNCHANGED <<nmNew, nmRead, nmPayload>>
    /\ UNCHANGED <<coreVars, concVars, wbVars, apiVars, thrVars>>

\* self.state["active"] = new_data["active"]
NMSetActive ==
    /\ nmPc = "active"
    /\ nmState' = [nmState EXCEPT !.active = nmNew.active]
    /\ nmPc' = "rest"
    /\ UNCHANGED <<nmNew, nmRead, nmPayload>>
    /\ UNCHANGED <<coreVars, concVars, wbVars, apiVars, thrVars>>

\* the remaining keys of update, then router.publish("network_update", status)
NMFinish ==
    /\ nmPc = "rest"
    /\ nmState' = [nmState EXCEPT !.modem_data = nmNew.modem_data,
                                  !.failover_active = nmNew.failover_active]
    /\ nmPayload' = nmNew
    /\ nmPc' = "idle"
    /\ UNCHANGED <<nmNew, nmRead>>
    /\ UNCHANGED <<coreVars, concVars, wbVars, apiVars, thrVars>>

\* NetworkModule.read_status() called from another thread
NMReadStatus ==
    /\ nmRead' = nmState
    /\ UNCHANGED <<nmState, nmPc, nmNew, nmPayload>>
    /\ UNCHANGED <<coreVars, concVars, wbVars, apiVars, thrVars>>

ModInit ==
    /\ nmState = InitialStatus
    /\ nmPc = "idle"
    /\ nmNew = InitialStatus
    /\ nmRead = InitialStatus
    /\ nmPayload = InitialStatus

(***************************************************************************)
(* ModemWorker's data session over the ATCommandEngine, statement by      *)
(* statement, with the threads that reach it                               *)
(***************************************************************************)
\* The NetworkWorker thread publishes the modem requests, so the handlers
\* run on it; the ModemWorker.start thread polls the modem; OtherThread is
\* one more thread publishing requests on the router.
NetworkThread == "network"
ModemThread == "modem"
OtherThread == "other"
Threads == {NetworkThread, ModemThread, OtherThread}

\* What ATI identifies the attached modem as.
Brands == {"SIMCom", "Quectel"}

\* Interfaces of MODEM_INTERFACES that "ip addr show" may report an address on.
DataInterfaces == {"wwan0", "usb0"}
DataIp == "10.64.0.2"

\* The payload connect_data / disconnect_data publish.
DataConnectedPayload(c) == [connected |-> c]

\* hasattr(self, 'brand') and self.brand == "SIMCom"
IsSIMCom(w) == w.brand = "SIMCom"

\* Configure APN (PDP context 1); auth: username and password are both set.
ConfigureCommands(auth) ==
    IF auth THEN <<"AT+CGDCONT", "AT+CGAUTH">> ELSE <<"AT+CGDCONT">>

AttachCommands(w) ==
    IF IsSIMCom(w) THEN <<"AT+NETCLOSE", "AT+NETOPEN", "AT+NETOPEN?">>
    ELSE <<"AT+CGACT=1,1">>

DetachCommand(w) == IF IsSIMCom(w) THEN "AT+NETCLOSE" ELSE "AT+CGACT=0,1"

IdleSend == [pc |-> "none", cmd |-> "", resp |-> "none"]
BeginSend(cmd) == [pc |-> "entry", cmd |-> cmd, resp |-> "none"]

\* was: self._data_connected when the method was called.
IdleThread == [op |-> "idle", pc |-> "idle", todo |-> <<>>, was |-> FALSE]

NoOp == [kind |-> "none", was_connected |-> FALSE, answer |-> "none",
         evs |-> <<>>, result |-> FALSE, seq |-> 0, prevKind |-> "none"]

\* The record of a connect_data / disconnect_data call that has returned:
\* was the session connected at the call, what the detach command was
\* answered, what the call published, what it returned; seq alternates
\* from one return to the next, prevKind is the call that returned before.
Returned(kind, was, answer, evs, result) ==
    [kind |-> kind, was_connected |-> was, answer |-> answer, evs |-> evs,
     result |-> result, seq |-> 1 - lastOp.seq, prevKind |-> lastOp.kind]

\* ---- ATCommandEngine.send ----
\* threading.Lock: acquire blocks while another thread holds it.
LockFreeAlways(holder) == TRUE
LockFree(holder) == holder = "none"

\* "if self.ser is None: return []"
SendEntry(t) ==
    /\ snd[t].pc = "entry"
    /\ snd' = [snd EXCEPT ![t] =
                  IF engineSer = "none"
                  THEN [@ EXCEPT !.pc = "returned", !.resp = "empty"]
                  ELSE [@ EXCEPT !.pc = "wait"]]
    /\ UNCHANGED <<engineSer, engineLock, thr, modemW, modemModule, lastOp, device>>
    /\ UNCHANGED notModem

\* "with self.lock:"
SendAcquire(t) ==
    /\ snd[t].pc = "wait"
    /\ LockFree(engineLock)
    /\ engineLock' = t
    /\ snd' = [snd EXCEPT ![t].pc = "locked"]
    /\ UNCHANGED <<engineSer, thr, modemW, modemModule, lastOp, device>>
    /\ UNCHANGED notModem

\* Flush and write the command. An exception (the port went away, or
\* self.ser is None by now) is caught: disconnect(), return [], and the
\* with statement releases the lock.
SendWrite(t) ==
    /\ snd[t].pc = "locked"
    /\ \E ok \in BOOLEAN :
        IF engineSer = "none" \/ ~ok
        THEN /\ engineSer' = "none"
             /\ engineLock' = "none"
             /\ snd' = [snd EXCEPT ![t].pc = "returned", ![t].resp = "empty"]
        ELSE /\ snd' = [snd EXCEPT ![t].pc = "wrote"]
             /\ UNCHANGED <<engineSer, engineLock>>
    /\ UNCHANGED <<thr, modemW, modemModule, lastOp, device>>
    /\ UNCHANGED notModem

\* Read response lines until OK, ERROR or the timeout; return them and
\* release the lock. An exception is caught as in SendWrite.
SendRead(t) ==
    /\ snd[t].pc = "wrote"
    /\ \E r \in {"lines", "empty", "raise"} :
        /\ engineSer = "none" => r = "raise"
        /\ engineSer' = IF r = "raise" THEN "none" ELSE engineSer
        /\ snd' = [snd EXCEPT ![t].pc = "returned",
                              ![t].resp = IF r = "lines" THEN "lines" ELSE "empty"]
    /\ engineLock' = "none"
    /\ UNCHANGED <<thr, modemW, modemModule, lastOp, device>>
    /\ UNCHANGED notModem

\* ---- ModemWorker._ensure_modem_connected ----
\* "if self.engine.ser and self.engine.test()": test() is send("AT").
EnsureStart(t, op, was) ==
    /\ thr' = [thr EXCEPT ![t] = [op |-> op,
                                  pc |-> IF engineSer = "open" THEN "ensure" ELSE "reopen",
                                  todo |-> <<>>, was |-> was]]
    /\ snd' = [snd EXCEPT ![t] = IF engineSer = "open" THEN BeginSend("AT") ELSE IdleSend]

\* What follows a True from _ensure_modem_connected.
AfterEnsure(op) == IF op = "connect" THEN "creg" ELSE "ati"
FirstCommand(op) == IF op = "connect" THEN "AT+CREG?" ELSE "ATI"

\* What follows a False: connect_data returns False; the poll loop sleeps
\* and starts over.
EnsureFailed(t) ==
    /\ thr' = [thr EXCEPT ![t] = IdleThread]
    /\ snd' = [snd EXCEPT ![t] = IdleSend]
    /\ lastOp' = IF thr[t].op = "connect"
                 THEN Returned("connect", thr[t].was, "none", <<>>, FALSE)
                 ELSE lastOp
    /\ UNCHANGED modemModule

\* test() answered.
EnsureTested(t) ==
    /\ thr[t].pc = "ensure"
    /\ snd[t].pc = "returned"
    /\ IF snd[t].resp = "lines"
       THEN /\ thr' = [thr EXCEPT ![t].pc = AfterEnsure(thr[t].op)]
            /\ snd' = [snd EXCEPT ![t] = BeginSend(FirstCommand(thr[t].op))]
       ELSE /\ thr' = [thr EXCEPT ![t].pc = "reopen"]
            /\ snd' = [snd EXCEPT ![t] = IdleSend]
    /\ UNCHANGED <<engineSer, engineLock, modemW, modemModule, lastOp, device>>
    /\ UNCHANGED notModem

\* engine.connect on the configured port or on the /dev/ttyUSB* found:
\* opened: serial.Serial succeeded on one of them.
Reopen(t) ==
    /\ thr[t].pc = "reopen"
    /\ \E opened \in BOOLEAN :
        IF opened
        THEN /\ engineSer' = "open"
             /\ thr' = [thr EXCEPT ![t].pc = "retest"]
             /\ snd' = [snd EXCEPT ![t] = BeginSend("AT")]
             /\ UNCHANGED <<modemModule, lastOp>>
        ELSE /\ EnsureFailed(t)
             /\ UNCHANGED engineSer
    /\ UNCHANGED <<engineLock, modemW, device>>
    /\ UNCHANGED notModem

\* test() on the port just opened answered; on no answer engine.disconnect().
Retested(t) ==
    /\ thr[t].pc = "retest"
    /\ snd[t].pc = "returned"
    /\ IF snd[t].resp = "lines"
       THEN /\ thr' = [thr EXCEPT ![t].pc = AfterEnsure(thr[t].op)]
            /\ snd' = [snd EXCEPT ![t] = BeginSend(FirstCommand(thr[t].op))]
            /\ UNCHANGED <<engineSer, modemModule, lastOp>>
       ELSE /\ engineSer' = "none"
            /\ EnsureFailed(t)
    /\ UNCHANGED <<engineLock, modemW, device>>
    /\ UNCHANGED notModem

\* ---- ModemWorker.connect_data ----
\* "if self._data_connected: return True"
AlreadyConnectedNever(w) == FALSE
AlreadyConnected(w) == w.data_connected

ConnectCall(t) ==
    /\ thr[t].op = "idle"
    /\ IF AlreadyConnected(modemW)
       THEN /\ lastOp' = Returned("connect", modemW.data_connected, "none", <<>>, TRUE)
            /\ UNCHANGED <<thr, snd>>
       ELSE IF modemW.apn = ""
       THEN /\ lastOp' = Returned("connect", modemW.data_connected, "none", <<>>, FALSE)
            /\ UNCHANGED <<thr, snd>>
       ELSE /\ EnsureStart(t, "connect", modemW.data_connected)
            /\ UNCHANGED lastOp
    /\ UNCHANGED <<engineSer, engineLock, modemW, modemModule, device>>
    /\ UNCHANGED notModem

\* AT+CREG? answered: registered when a +CREG: line carries 1 or 5.
CregAnswered(t) ==
    /\ thr[t].pc = "creg"
    /\ snd[t].pc = "returned"
    /\ \E registered \in BOOLEAN :
        /\ registered => snd[t].resp = "lines"
        /\ IF registered
           THEN /\ \E auth \in BOOLEAN :
                    /\ thr' = [thr EXCEPT ![t].pc = "configure",
                                          ![t].todo = Tail(ConfigureCommands(auth))]
                    /\ snd' = [snd EXCEPT ![t] = BeginSend(Head(ConfigureCommands(auth)))]
                /\ UNCHANGED lastOp
           ELSE /\ thr' = [thr EXCEPT ![t] = IdleThread]
                /\ snd' = [snd EXCEPT ![t] = IdleSend]
                /\ lastOp' = Returned("connect", thr[t].was, "none", <<>>, FALSE)
    /\ UNCHANGED <<engineSer, engineLock, modemW, modemModule, device>>
    /\ UNCHANGED notModem

\* A command of the APN configuration answered (the answer is not looked
\* at); after the last one the brand decides the attach commands.
ConfigureAnswered(t) ==
    /\ thr[t].pc = "configure"
    /\ snd[t].pc = "returned"
    /\ IF thr[t].todo # <<>>
       THEN /\ thr' = [thr EXCEPT ![t].todo = Tail(@)]
            /\ snd' = [snd EXCEPT ![t] = BeginSend(Head(thr[t].todo))]
       ELSE /\ thr' = [thr EXCEPT ![t].pc = "attach",
                                  ![t].todo = Tail(AttachCommands(modemW))]
            /\ snd' = [snd EXCEPT ![t] = BeginSend(Head(AttachCommands(modemW)))]
    /\ UNCHANGED <<engineSer, engineLock, modemW, modemModule, lastOp, device>>
    /\ UNCHANGED notModem

\* A command of the attach sequence answered (the answer is at most logged).
AttachAnswered(t) ==
    /\ thr[t].pc = "attach"
    /\ snd[t].pc = "returned"
    /\ IF thr[t].todo # <<>>
       THEN /\ thr' = [thr EXCEPT ![t].todo = Tail(@)]
            /\ snd' = [snd EXCEPT ![t] = BeginSend(Head(thr[t].todo))]
       ELSE /\ thr' = [thr EXCEPT ![t].pc = "check_interface"]
            /\ snd' = [snd EXCEPT ![t] = IdleSend]
    /\ UNCHANGED <<engineSer, engineLock, modemW, modemModule, lastOp, device>>
    /\ UNCHANGED notModem

\* _check_data_interface and the end of connect_data: with an address on a
\* modem interface the module gets data_ip and data_interface, the session
\* is marked connected and modem_data_connected is published.
CheckDataInterface(t) ==
    /\ thr[t].pc = "check_interface"
    /\ \E got \in DataInterfaces \cup {"none"} :
        IF got # "none"
        THEN /\ modemW' = [modemW EXCEPT !.data_connected = TRUE]
             /\ modemModule' = [modemModule EXCEPT !.data_ip = DataIp,
                                                   !.data_interface = got,
                                                   !.data_connected = "true"]
             /\ lastOp' = Returned("connect", thr[t].was, "none",
                                   <<DataConnectedPayload(TRUE)>>, TRUE)
        ELSE /\ lastOp' = Returned("connect", thr[t].was, "none", <<>>, FALSE)
             /\ UNCHANGED <<modemW, modemModule>>
    /\ thr' = [thr EXCEPT ![t] = IdleThread]
    /\ UNCHANGED <<engineSer, engineLock, snd, device>>
    /\ UNCHANGED notModem

\* ---- ModemWorker.disconnect_data ----
\* "self._data_connected = False", whatever send returned.
AfterDetachIfAnswered(w, resp) ==
    IF resp = "lines" THEN [w EXCEPT !.data_connected = FALSE] ELSE w
AfterDetach(w, resp) == [w EXCEPT !.data_connected = FALSE]

DisconnectCall(t) ==
    /\ thr[t].op = "idle"
    /\ thr' = [thr EXCEPT ![t] = [op |-> "disconnect", pc |-> "detach",
                                  todo |-> <<>>,
                                  was |-> modemW.data_connected]]
    /\ snd' = [snd EXCEPT ![t] = BeginSend(DetachCommand(modemW))]
    /\ UNCHANGED <<engineSer, engineLock, modemW, modemModule, lastOp, device>>
    /\ UNCHANGED notModem

\* The detach command answered or failed (send returns [] then): the
\* session is marked not connected and modem_data_connected is published.
DetachAnswered(t) ==
    /\ thr[t].pc = "detach"
    /\ snd[t].pc = "returned"
    /\ modemW' = AfterDetach(modemW, snd[t].resp)
    /\ modemModule' = [modemModule EXCEPT !.data_connected = "false"]
    /\ lastOp' = Returned("disconnect", thr[t].was, snd[t].resp,
                          <<DataConnectedPayload(FALSE)>>, TRUE)
    /\ thr' = [thr EXCEPT ![t] = IdleThread]
    /\ snd' = [snd EXCEPT ![t] = IdleSend]
    /\ UNCHANGED <<engineSer, engineLock, device>>
    /\ UNCHANGED notModem

\* ---- one iteration of ModemWorker.start, as far as the channel goes ----
PollCall(t) ==
    /\ thr[t].op = "idle"
    /\ EnsureStart(t, "poll", FALSE)
    /\ UNCHANGED <<engineSer, engineLock, modemW, modemModule, lastOp, device>>
    /\ UNCHANGED notModem

\* _get_modem_identity: ATI answered, self.brand is assigned; the further
\* queries of the iteration go through send in the same way.
IdentityAnswered(t) ==
    /\ thr[t].pc = "ati"
    /\ snd[t].pc = "returned"
    /\ modemW' = [modemW EXCEPT !.brand = IF snd[t].resp = "lines" THEN device ELSE "None"]
    /\ thr' = [thr EXCEPT ![t] = IdleThread]
    /\ snd' = [snd EXCEPT ![t] = IdleSend]
    /\ UNCHANGED <<engineSer, engineLock, modemModule, lastOp, device>>
    /\ UNCHANGED notModem

\* After BackendEngine.__init__: no port open, no brand attribute yet. Of
\* the module's attributes the ones of the data session are kept.
ModemInit ==
    /\ engineSer = "none"
    /\ engineLock = "none"
    /\ thr = [t \in Threads |-> IdleThread]
    /\ snd = [t \in Threads |-> IdleSend]
    /\ modemW = [apn |-> cfgDisk.apn, data_connected |-> FALSE, brand |-> "unset"]
    /\ modemModule = [data_connected |-> "unset", data_ip |-> "unset",
                      data_interface |-> "unset"]
    /\ lastOp = NoOp
    /\ device \in Brands

(***************************************************************************)
(* The workers' start() loops and BackendEngine._shutdown                  *)
(***************************************************************************)
\* The loops looked at. OTAManager.start is run here as a thread target
\* like the others.
LoopWorkers == {"NetworkWorker", "ModemWorker", "CloudUploader", "OTAManager"}

\* Those of them in self.threads, in the order of self.workers.
EngineThreads == <<"NetworkWorker", "ModemWorker", "CloudUploader">>

\* The loop body sits in "try: ... except Exception".
HasTry(w) == w # "OTAManager"

\* The thread is inside its while loop.
Alive(pc) == pc \in {"test", "body", "except", "sleep"}

\* "while self.running:"
LoopTest(w) ==
    /\ loopPc[w] = "test"
    /\ loopPc' = [loopPc EXCEPT ![w] = IF loopRunning[w] THEN "body" ELSE "exited"]
    /\ UNCHANGED <<loopRunning, mainPc, stopIdx, killedAt>>
    /\ UNCHANGED notLoops

\* The work of the iteration returns; the sleep of the iteration follows.
IterationReturns(w) ==
    /\ loopPc[w] = "body"
    /\ loopPc' = [loopPc EXCEPT ![w] = "sleep"]
    /\ UNCHANGED <<loopRunning, mainPc, stopIdx, killedAt>>
    /\ UNCHANGED notLoops

\* The work of the iteration raises an Exception: the except clause of the
\* loop takes it where there is one, else it leaves start().
IterationRaises(w) ==
    /\ loopPc[w] = "body"
    /\ loopPc' = [loopPc EXCEPT ![w] = IF HasTry(w) THEN "except" ELSE "crashed"]
    /\ UNCHANGED <<loopRunning, mainPc, stopIdx, killedAt>>
    /\ UNCHANGED notLoops

\* The except clause: log, then sleep.
ExceptClause(w) ==
    /\ loopPc[w] = "except"
    /\ loopPc' = [loopPc EXCEPT ![w] = "sleep"]
    /\ UNCHANGED <<loopRunning, mainPc, stopIdx, killedAt>>
    /\ UNCHANGED notLoops

\* time.sleep returns.
SleepDone(w) ==
    /\ loopPc[w] = "sleep"
    /\ loopPc' = [loopPc EXCEPT ![w] = "test"]
    /\ UNCHANGED <<loopRunning, mainPc, stopIdx, killedAt>>
    /\ UNCHANGED notLoops

\* SIGINT / SIGTERM: _shutdown starts on the main thread.
ShutdownSignal ==
    /\ mainPc = "serving"
    /\ mainPc' = "stopping"
    /\ stopIdx' = 1
    /\ UNCHANGED <<loopPc, loopRunning, killedAt>>
    /\ UNCHANGED notLoops

\* "for worker, thread in self.threads: worker.stop()", one worker a step;
\* after the last one, time.sleep(1).
ShutdownStop ==
    /\ mainPc = "stopping"
    /\ IF stopIdx <= Len(EngineThreads)
       THEN /\ loopRunning' = [loopRunning EXCEPT ![EngineThreads[stopIdx]] = FALSE]
            /\ stopIdx' = stopIdx + 1
            /\ UNCHANGED mainPc
       ELSE /\ mainPc' = "sleeping"
            /\ UNCHANGED <<loopRunning, stopIdx>>
    /\ UNCHANGED <<loopPc, killedAt>>
    /\ UNCHANGED notLoops

\* exit(0) after the sleep: the threads are daemon threads, the ones still
\* in their loop end with the process, wherever they are.
ShutdownExit ==
    /\ mainPc = "sleeping"
    /\ mainPc' = "exited"
    /\ killedAt' = [w \in LoopWorkers |->
                       IF Alive(loopPc[w]) THEN loopPc[w] ELSE killedAt[w]]
    /\ loopPc' = [w \in LoopWorkers |->
                     IF Alive(loopPc[w]) THEN "killed" ELSE loopPc[w]]
    /\ UNCHANGED <<loopRunning, stopIdx>>
    /\ UNCHANGED notLoops

LoopInit ==
    /\ loopPc = [w \in LoopWorkers |-> "test"]
    /\ loopRunning = [w \in LoopWorkers |-> TRUE]
    /\ mainPc = "serving"
    /\ stopIdx = 0
    /\ killedAt = [w \in LoopWorkers |-> "none"]

(***************************************************************************)
(* The NetworkWorker loop over a run without end                           *)
(***************************************************************************)
\* _check_failover compares time.time() with its two stamps only through
\* "now - stamp < FAILOVER_CHECK_INTERVAL" and "now - stamp <
\* FAILOVER_RETRY_DELAY": a distance of FAILOVER_RETRY_DELAY or more
\* behaves as FAILOVER_RETRY_DELAY does.
Since(t, stamp) ==
    IF t - stamp > FAILOVER_RETRY_DELAY THEN FAILOVER_RETRY_DELAY ELSE t - stamp

\* The worker's stamps after an iteration at time t, told from StartTime.
Rebase(w, t) ==
    [w EXCEPT !.last_failover_check = StartTime - Since(t, @),
              !.last_modem_attempt = StartTime - Since(t, @)]

\* One iteration of the NetworkWorker.start loop, the clock kept as the
\* distances to the stamps.
FailoverIteration ==
    \E d \in Deltas, wifi \in BOOLEAN, eth \in BOOLEAN,
       inet \in BOOLEAN, co \in ConnectOutcomes :
        LET t == now + d
            r == CheckFailover(nw, mw, t, wifi \/ eth, inet, co)
        IN  /\ r.w.consecutive_failures <= MaxFailures
            /\ nw' = Rebase(r.w, t)
            /\ mw' = r.m
            /\ netState' = UpdateStatus(nw, wifi, eth)
            /\ published' = <<Ev("network_update")>> \o r.events
            /\ lastEval' = r.eval
            /\ lastModemEvent' = LastDataEvent(r.events, lastModemEvent)
            /\ primaryUp' = ((wifi \/ eth) /\ inet)
            /\ UNCHANGED <<now, cfgDisk, lastConnReqAt, minGap, nShort,
                           sawConnected, nSettings>>
            /\ UNCHANGED <<busVars, otaVars, concVars, wbVars, modVars, apiVars,
                           mdmVars, loopVars, tachoVars>>

(***************************************************************************)
(* TachoUploader over the StorageManager                                   *)
(***************************************************************************)
\* Daily logs are named <date>.csv; a day stands for its file name, and the
\* order of the days is the order of the names.
DailyFiles == 1..MaxDays

\* StorageManager.get_daily_logs: sorted(...) of the .csv names in TACHO_DIR
RECURSIVE GetDailyLogs(_)
GetDailyLogs(dir) ==
    IF dir = {} THEN <<>>
    ELSE LET first == CHOOSE f \in dir : \A g \in dir : f <= g
         IN  <<first>> \o GetDailyLogs(dir \ {first})

\* The payload published after an upload and the delete.
UploadedPayload(f) == [file |-> f, status |-> "uploaded"]

\* self.storage.delete_file(filepath): StorageManager defines no delete_file
\* (and no __getattr__), so the call raises AttributeError and nothing is
\* removed.
DeleteFile(dir, f) == [raised |-> TRUE, dir |-> dir]

\* process_daily_uploads up to the for loop: list the directory, return on
\* an empty list.
ProcessDailyUploads ==
    /\ upPc = "sleeping"
    /\ upList' = GetDailyLogs(tachoDir)
    /\ upPc' = IF upList' = <<>> THEN "sleeping" ELSE "uploading"
    /\ UNCHANGED <<tachoDir, uploadCount, tachoUpdates>>
    /\ UNCHANGED notTacho

\* One pass of the for loop: upload_file (ok: an upload URL is configured,
\* the file opens and the server answers 200), then delete_file and the
\* publish; the except clause of the loop body logs and goes on.
UploadNext ==
    /\ upPc = "uploading"
    /\ \E ok \in BOOLEAN :
        LET f == Head(upList)
            d == DeleteFile(tachoDir, f)
        IN  /\ ok => uploadCount[f] < MaxUploads
            /\ uploadCount' = IF ok THEN [uploadCount EXCEPT ![f] = @ + 1]
                              ELSE uploadCount
            /\ IF ok /\ ~d.raised
               THEN /\ tachoDir' = d.dir
                    /\ tachoUpdates' = Append(tachoUpdates, UploadedPayload(f))
               ELSE UNCHANGED <<tachoDir, tachoUpdates>>
    /\ upList' = Tail(upList)
    /\ upPc' = IF upList' = <<>> THEN "sleeping" ELSE "uploading"
    /\ UNCHANGED notTacho

\* After TachoUploader.__init__; the directory holds what it holds.
TachoInit ==
    /\ upPc = "sleeping"
    /\ upList = <<>>
    /\ uploadCount = [f \in DailyFiles |-> 0]
    /\ tachoUpdates = <<>>

(***************************************************************************)
(* Specifications                                                          *)
(***************************************************************************)
\* The configuration file of a fresh installation: no modem section.
FreshConfig == cfgDisk = [apn |-> "", failover_enabled |-> TRUE]

ExtInit ==
    /\ ConcInit /\ WBInit /\ ModInit /\ apiResponse = "none"
    /\ ModemInit /\ LoopInit /\ primaryUp = FALSE
    /\ TachoInit

\* The modem attached is a SIMCom one.
OneModem == device = "SIMCom"
\* TACHO_DIR holds no daily log.
NoDailyLogs == tachoDir = {}
InitBus ==
    BusInit /\ NetInit /\ FreshConfig /\ OTAInit /\ ExtInit /\ OneModem /\ NoDailyLogs
AnyConfig == BusInit /\ NetInit /\ OTAInit /\ ExtInit /\ NoDailyLogs
InitTacho ==
    /\ BusInit /\ NetInit /\ FreshConfig /\ OTAInit /\ ExtInit /\ OneModem
    /\ tachoDir \in SUBSET DailyFiles
InitNet == AnyConfig /\ OneModem
InitModem == AnyConfig /\ cfgDisk.failover_enabled
InitOTA == InitBus

BusNext ==
    \/ \E name \in Topics \cup {WILDCARD}, h \in Handlers : Subscribe(name, h)
    \/ \E event \in Topics : PublishBegin(event)
    \/ PublishStep

NetNext ==
    \/ NetworkWorkerIteration
    \/ \E apn \in APNs : ApplySettings(apn)

OTANext ==
    \/ \E url \in URLs, sha \in Shas : QueueUpdate(url, sha)
    \/ OTATake
    \/ OTADownload
    \/ OTAVerify
    \/ OTAExtract
    \/ OTAInstall
    \/ OTARebuildVenv
    \/ OTARestart

\* The OTAManager loop fed packages of every layout, none with a sha256.
PackagesNext ==
    \/ \E url \in Packages : QueueUpdate(url, NoneSha)
    \/ OTATake
    \/ OTADownload
    \/ OTAExtract
    \/ OTAInstall
    \/ OTARebuildVenv
    \/ OTARestart

\* BackendEngine.start: the workers of self.workers run; OTAManager.start is
\* not among the thread targets. The REST thread serves /api/ota/update.
WiredNext ==
    \/ \E url \in URLs \cup {""}, sha \in Shas : ApiOtaUpdate(url, sha)
    \/ OTAWorkerIteration

\* Threads calling the router concurrently.
ConcNext ==
    \/ \E t \in SubscriberThreads, name \in Topics \cup {WILDCARD} : SubCall(t, name)
    \/ \E t \in SubscriberThreads : SubCheck(t)
    \/ \E t \in SubscriberThreads : SubCreate(t)
    \/ \E t \in SubscriberThreads : SubLookup(t)
    \/ \E t \in SubscriberThreads : SubAppend(t)
    \/ \E p \in PublisherThreads, event \in Topics : PubCall(p, event)
    \/ \E p \in PublisherThreads : PubCheck(p)
    \/ \E p \in PublisherThreads : PubIter(p)

\* The main thread going on through BackendEngine.start while a worker
\* thread publishes.
BridgeNext ==
    \/ BootBridge
    \/ BootTracking
    \/ \E event \in WorkerEvents : WPublish(event)
    \/ WInvoke
    \/ WAdvance

SpecBridge == InitBus /\ [][BridgeNext]_vars /\ WF_vars(BridgeNext)
\* The NetworkWorker thread and a reader thread.
ModuleNext ==
    \/ \E wifi \in BOOLEAN, eth \in BOOLEAN : NMUpdateBegin(wifi, eth)
    \/ NMSetWifi
    \/ NMSetEthernet
    \/ NMSetActive
    \/ NMFinish
    \/ NMReadStatus

\* The program as wired: the NetworkWorker thread publishes the modem
\* requests, the ModemWorker thread polls.
ModemNext ==
    \/ ConnectCall(NetworkThread)
    \/ DisconnectCall(NetworkThread)
    \/ PollCall(ModemThread)
    \/ \E t \in {NetworkThread, ModemThread} : SendEntry(t)
    \/ \E t \in {NetworkThread, ModemThread} : SendAcquire(t)
    \/ \E t \in {NetworkThread, ModemThread} : SendWrite(t)
    \/ \E t \in {NetworkThread, ModemThread} : SendRead(t)
    \/ \E t \in {NetworkThread, ModemThread} : EnsureTested(t)
    \/ \E t \in {NetworkThread, ModemThread} : Reopen(t)
    \/ \E t \in {NetworkThread, ModemThread} : Retested(t)
    \/ CregAnswered(NetworkThread)
    \/ ConfigureAnswered(NetworkThread)
    \/ AttachAnswered(NetworkThread)
    \/ CheckDataInterface(NetworkThread)
    \/ DetachAnswered(NetworkThread)
    \/ IdentityAnswered(ModemThread)

\* Two threads publishing the modem requests on the router.
RequestThreads == {NetworkThread, OtherThread}
ModemConcNext ==
    \/ \E t \in RequestThreads : ConnectCall(t)
    \/ \E t \in RequestThreads : DisconnectCall(t)
    \/ \E t \in RequestThreads : SendEntry(t)
    \/ \E t \in RequestThreads : SendAcquire(t)
    \/ \E t \in RequestThreads : SendWrite(t)
    \/ \E t \in RequestThreads : SendRead(t)
    \/ \E t \in RequestThreads : EnsureTested(t)
    \/ \E t \in RequestThreads : Reopen(t)
    \/ \E t \in RequestThreads : Retested(t)
    \/ \E t \in RequestThreads : CregAnswered(t)
    \/ \E t \in RequestThreads : ConfigureAnswered(t)
    \/ \E t \in RequestThreads : AttachAnswered(t)
    \/ \E t \in RequestThreads : CheckDataInterface(t)
    \/ \E t \in RequestThreads : DetachAnswered(t)

\* The worker threads in their loops, the main thread in _shutdown.
LoopsNext ==
    \/ \E w \in LoopWorkers : LoopTest(w)
    \/ \E w \in LoopWorkers : IterationReturns(w)
    \/ \E w \in LoopWorkers : IterationRaises(w)
    \/ \E w \in LoopWorkers : ExceptClause(w)
    \/ \E w \in LoopWorkers : SleepDone(w)
    \/ ShutdownSignal
    \/ ShutdownStop
    \/ ShutdownExit

FailoverNext ==
    \/ FailoverIteration
    \/ \E apn \in APNs : ApplySettings(apn)

SpecModem == InitModem /\ [][ModemNext]_vars
SpecModemConc == InitModem /\ [][ModemConcNext]_vars
SpecLoops == InitBus /\ [][LoopsNext]_vars
SpecFailover == InitNet /\ [][FailoverNext]_vars /\ WF_vars(FailoverIteration)
SpecModule == InitBus /\ [][ModuleNext]_vars
SpecConc == InitBus /\ [][ConcNext]_vars
SpecBus == InitBus /\ [][BusNext]_vars
SpecNet == InitNet /\ [][NetNext]_vars
TachoNext ==
    \/ ProcessDailyUploads
    \/ UploadNext

SpecTacho == InitTacho /\ [][TachoNext]_vars
SpecPackages == InitOTA /\ [][PackagesNext]_vars
SpecOTA == InitOTA /\ [][OTANext]_vars
SpecWired == InitOTA /\ [][WiredNext]_vars
SpecWiredFair == InitOTA /\ [][WiredNext]_vars /\ WF_vars(WiredNext)

(***************************************************************************)
(* Properties                                                              *)
(***************************************************************************)
Registered(subs, event) == ListOf(subs, event) \o ListOf(subs, WILDCARD)

\* The publish call has returned and no subscribe call ran during it.
PublishDoneQuiet == pubPhase = "returned" /\ subscribers = subsAtStart

\* C1: a publish of topic E with N handlers subscribed to E and M handlers
\* subscribed to "*" makes exactly N+M invocations: the handlers of E in
\* subscription order, then the handlers of "*" in subscription order, each
\* subscription once.
C1_FanOutOrder ==
    PublishDoneQuiet =>
        /\ calls = ListOf(subsAtStart, pubEvent) \o ListOf(subsAtStart, WILDCARD)
        /\ Len(calls) = Len(ListOf(subsAtStart, pubEvent))
                          + Len(ListOf(subsAtStart, WILDCARD))

C1_Witness ==
    /\ PublishDoneQuiet
    /\ Len(ListOf(subsAtStart, pubEvent)) = 2
    /\ Len(ListOf(subsAtStart, WILDCARD)) = 2
    /\ calls = <<"ok2", "ok1", "ok1", "ok2">>

Occurrences(seq, h) == Cardinality({i \in 1..Len(seq) : seq[i] = h})

\* C2: a handler that raises never makes publish raise to the publisher,
\* and when publish has returned every registered handler, before and after
\* the raising one, exact-match and wildcard, was invoked once per
\* subscription.
C2_FaultIsolation ==
    /\ pubPhase # "raised"
    /\ (PublishDoneQuiet
        /\ \E i \in 1..Len(Registered(subsAtStart, pubEvent)) :
              Behaviour(Registered(subsAtStart, pubEvent)[i]) = "raise")
       => \A h \in Handlers :
              Occurrences(calls, h) = Occurrences(Registered(subsAtStart, pubEvent), h)

C2_Witness ==
    /\ PublishDoneQuiet
    /\ ListOf(subsAtStart, pubEvent) = <<"ok1", "throwing", "ok2">>
    /\ ListOf(subsAtStart, WILDCARD) = <<"ok1">>
    /\ calls = <<"ok1", "throwing", "ok2", "ok1">>

\* A step of the NetworkWorker loop whose _check_failover went past the
\* configuration and interval guards.
FailedEvals == {"fail_nolink", "fail_probe"}
Evaluated == now' # now /\ lastEval' \in FailedEvals \cup {"ok"}

ConnReqs(events) == CountEv(events, "modem_connect_request")
DiscReqs(events) == CountEv(events, "modem_disconnect_request")

\* C3: an evaluation with no link connected, or with a link connected and
\* the probe failing, counts as a failure; an iteration that leaves fewer
\* than 2 consecutive failures publishes no modem_connect_request; the 2nd
\* consecutive failure, with the modem not connected, publishes exactly
\* one; a 3rd consecutive failure less than FAILOVER_RETRY_DELAY after that
\* request publishes none.
C3_Hysteresis ==
    [][ now' # now =>
          /\ (Evaluated /\ ~(netState'.wifi \/ netState'.ethernet))
                => /\ lastEval' = "fail_nolink"
                   /\ nw'.consecutive_failures = nw.consecutive_failures + 1
          /\ (Evaluated /\ lastEval' = "fail_probe")
                => /\ netState'.wifi \/ netState'.ethernet
                   /\ nw'.consecutive_failures = nw.consecutive_failures + 1
          /\ nw'.consecutive_failures < 2 => ConnReqs(published') = 0
          /\ (Evaluated /\ lastEval' \in FailedEvals /\ ~mw.data_connected
              /\ nw'.consecutive_failures = 2)
                => ConnReqs(published') = 1
          /\ (Evaluated /\ lastEval' \in FailedEvals
              /\ nw'.consecutive_failures = 3
              /\ lastConnReqAt # 0
              /\ now' - lastConnReqAt < FAILOVER_RETRY_DELAY)
                => ConnReqs(published') = 0
      ]_vars

\* A third consecutive failure 30 s after the request of the second one.
C3_Witness ==
    /\ lastEval \in FailedEvals
    /\ nw.consecutive_failures = 3
    /\ ~mw.data_connected
    /\ lastConnReqAt # 0
    /\ now - lastConnReqAt = FAILOVER_CHECK_INTERVAL
    /\ ConnReqs(published) = 0

\* C4: any two successive modem_connect_request publications are at least
\* FAILOVER_RETRY_DELAY apart (on the time.time() samples of the
\* evaluations that publish them).
C4_RetryThrottle == minGap >= FAILOVER_RETRY_DELAY

\* A second request exactly FAILOVER_RETRY_DELAY after a failed attempt.
C4_Witness ==
    /\ minGap = FAILOVER_RETRY_DELAY
    /\ ConnReqs(published) = 1
    /\ ~mw.data_connected

\* C5: a successful evaluation (link connected, probe succeeds) sets the
\* failure counter to 0; it publishes exactly one modem_disconnect_request
\* if modem_data_connected{connected: true} was observed and no successful
\* evaluation has happened since, and none otherwise.
C5_Recovery ==
    [][ (now' # now /\ lastEval' = "ok") =>
          /\ nw'.consecutive_failures = 0
          /\ DiscReqs(published') = IF sawConnected THEN 1 ELSE 0
      ]_vars

C5_Witness ==
    /\ lastEval = "ok"
    /\ DiscReqs(published) = 1
    /\ nw.consecutive_failures = 0
    /\ ~nw.failover_active
    /\ ~mw.data_connected

\* The ota_status events of one job, and their states.
JobEvents(j) == LET OfJob(e) == e.job = j IN SelectSeq(ota_events, OfJob)
JobStates(j) == [i \in 1..Len(JobEvents(j)) |-> JobEvents(j)[i].state]
JobIds == 1..(nextJobId - 1)
Terminal(e) == e.state \in {"completed", "error"}
HasState(j, st) == \E i \in 1..Len(JobEvents(j)) : JobEvents(j)[i].state = st
LastEvent(j) == JobEvents(j)[Len(JobEvents(j))]

\* The job the worker took last has run through every stage.
JobCompleted ==
    /\ otaJob.id # 0
    /\ otaPc = "idle"
    /\ HasState(otaJob.id, "completed")

HashMismatchJob ==
    /\ otaJob.id # 0
    /\ HasState(otaJob.id, "downloaded")
    /\ otaPc # "verifying"
    /\ Truthy(otaJob.sha256)
    /\ Lower(otaJob.sha256) # Sha256Hex(otaFiles[Filename(otaJob.url)])

\* C7: such a job's events end with verifying, error{sha256_mismatch}; no
\* later stage runs for it, and staging, install and venv directories are as
\* they were when the job was taken.
C7_HashMismatch ==
    HashMismatchJob =>
        LET ev == JobEvents(otaJob.id)
            n == Len(ev)
        IN  /\ n >= 2
            /\ ev[n - 1].state = "verifying"
            /\ ev[n] = Err("sha256_mismatch", otaJob.id)
            /\ otaPc = "idle"
            /\ \A st \in {"verified", "extracting", "installing_backend",
                          "rebuilding_venv", "restarting", "completed"} :
                  ~HasState(otaJob.id, st)
            /\ <<staging, installDir, venv>> = dirsAtTake

C7_Witness ==
    /\ HashMismatchJob
    /\ otaJob.url = "http://srv/docs.tgz"
    /\ otaJob.sha256 = Hex(<<1, 2>>, TRUE)
    /\ otaFiles["docs.tgz"] = <<3, 4>>
    /\ LastEvent(otaJob.id) = Err("sha256_mismatch", otaJob.id)

\* C8: every job accepted by queue_update eventually reaches a terminal
\* ota_status (completed or error).
C8_EveryJobTerminates ==
    \A j \in 1..MaxJobs :
        (\E i \in 1..Len(ota_events) : ota_events[i] = E("queued", j))
          ~> (\E i \in 1..Len(ota_events) :
                 ota_events[i].job = j /\ Terminal(ota_events[i]))

IndexOf(st, j) == CHOOSE i \in 1..Len(ota_events) :
                      ota_events[i].state = st /\ ota_events[i].job = j
TerminalIndex(j) == CHOOSE i \in 1..Len(ota_events) :
                        ota_events[i].job = j /\ Terminal(ota_events[i])
HasTerminal(j) == \E i \in 1..Len(ota_events) :
                      ota_events[i].job = j /\ Terminal(ota_events[i])

\* C9: jobs are processed one at a time in the order of their queue_update
\* calls: the later job's downloading event comes after the earlier job's
\* terminal event; and a queue_update call publishes its queued event at
\* once and leaves the worker's position, its job and the events of the job
\* in flight as they are.
C9_FifoOneAtATime ==
    /\ [](\A j1 \in JobIds, j2 \in JobIds :
            (j1 < j2 /\ HasState(j2, "downloading")) =>
                /\ HasTerminal(j1)
                /\ TerminalIndex(j1) < IndexOf("downloading", j2))
    /\ [][ nextJobId' # nextJobId =>
             /\ ota_events' = Append(ota_events, E("queued", nextJobId))
             /\ otaPc' = otaPc
             /\ otaJob' = otaJob
             /\ update_queue'[Len(update_queue')].id = nextJobId
             /\ SubSeq(update_queue', 1, Len(update_queue)) = update_queue
         ]_vars

\* Job 2 was queued while job 1 was being downloaded and ran after it.
C9_Witness ==
    /\ nextJobId = 3
    /\ HasState(1, "downloading") /\ HasTerminal(1) /\ HasTerminal(2)
    /\ IndexOf("downloading", 1) < IndexOf("queued", 2)
    /\ IndexOf("queued", 2) < TerminalIndex(1)
    /\ TerminalIndex(1) < IndexOf("downloading", 2)

StageRank(st) ==
    CASE st = "queued" -> 1
      [] st = "downloading" -> 2
      [] st = "downloaded" -> 3
      [] st = "verifying" -> 4
      [] st = "verified" -> 5
      [] st = "extracting" -> 6
      [] st = "installing_backend" -> 7
      [] st = "rebuilding_venv" -> 8
      [] st = "restarting" -> 9
      [] OTHER -> 10

PublishedBefore(j, a, b) ==
    /\ HasState(j, a)
    /\ HasState(j, b)
    /\ IndexOf(a, j) < IndexOf(b, j)

\* C11: for a job with no sha256 (None or "") neither verifying nor verified
\* is published and the event after downloaded is extracting, whatever the
\* downloaded file holds; for a job with a sha256, extracting is published
\* only after verified.
C11_VerifyOnlyIfSupplied ==
    otaJob.id # 0 =>
        LET j == otaJob.id
            ev == JobEvents(j)
        IN  IF Truthy(otaJob.sha256)
            THEN HasState(j, "extracting") => PublishedBefore(j, "verified", "extracting")
            ELSE /\ ~HasState(j, "verifying")
                 /\ ~HasState(j, "verified")
                 /\ \A i \in 1..Len(ev) :
                       ev[i].state = "downloaded" =>
                           /\ i < Len(ev)
                           /\ ev[i + 1].state = "extracting"

\* A job without sha256 whose downloaded file is not the server's file (a
\* partial file was there and the server ignored the Range header) went on
\* to extraction.
C11_Witness ==
    /\ otaJob.id = 2
    /\ otaJob.sha256 = NoneSha
    /\ Filename(otaJob.url) \in DOMAIN otaFiles
    /\ otaFiles[Filename(otaJob.url)] # Remote(otaJob.url)
    /\ JobStates(2) = <<"queued", "downloading", "downloaded", "extracting">>

\* The download stage of the job in flight has failed.
DownloadFailedJob ==
    /\ otaJob.id # 0
    /\ \E i \in 1..Len(JobEvents(otaJob.id)) :
          JobEvents(otaJob.id)[i] = Err("download_failed", otaJob.id)

\* C12: when a job's download stage fails, the staging directory, the
\* install directory and the venv are as they were when the job was taken.
C12_DownloadFailureIsolation ==
    DownloadFailedJob => <<staging, installDir, venv>> = dirsAtTake

\* Job 1 installed the staged application; the download of job 2 failed.
C12_Witness ==
    /\ DownloadFailedJob
    /\ otaJob.id = 2
    /\ otaPc = "idle"
    /\ LastEvent(2) = Err("download_failed", 2)
    /\ <<staging, installDir, venv>> = <<"app", "app", "rebuilt">>

\* Complete application directories: the one installed before any update
\* and the staged payload with a backend/ directory.
CompleteInstalls == {"old", "app"}

\* C13: in every reachable state the install directory holds the complete
\* previous application or the complete staged payload, never a missing or
\* partially copied directory.
C13_AtomicInstall == installDir \in CompleteInstalls

\* The file a download of url leaves when no file was there before.
CleanDownload(url) ==
    Download([n \in {} |-> <<>>], url, "complete", "norange", 0).files[Filename(url)]

\* C14: a download that finds a partial file of length L, 0 < L < S, asks
\* for the bytes from offset L on, and when they are delivered the file has
\* size S and equals the file a clean download produces.
C14_Resume ==
    [][ (otaPc = "downloading"
         /\ Filename(otaJob.url) \in DOMAIN otaFiles
         /\ Len(otaFiles[Filename(otaJob.url)]) > 0
         /\ Len(otaFiles[Filename(otaJob.url)]) < Len(Remote(otaJob.url))
         /\ resumedFrom' # NoResume)
        => /\ resumedFrom' = Len(otaFiles[Filename(otaJob.url)])
           /\ Len(otaFiles'[Filename(otaJob.url)]) = Len(Remote(otaJob.url))
           /\ otaFiles'[Filename(otaJob.url)] = CleanDownload(otaJob.url)
      ]_vars

\* Job 1's download broke off after one byte; job 2 resumed it from offset 1.
C14_Witness ==
    /\ resumedFrom = 1
    /\ otaJob.id = 2
    /\ LastEvent(1) = Err("download_failed", 1)
    /\ otaFiles[Filename(otaJob.url)] = Remote(otaJob.url)
    /\ HasState(2, "downloaded")

\* The subscriptions a publish of thread p has to serve: those completed
\* before it began, for its event or for "*".
Owed(p) == {c \in pubT[p].snap : c[1] \in {pubT[p].event, WILDCARD}}

\* C15: with subscribe and publish calls from several threads, a publish
\* that has returned invoked every handler whose subscribe call completed
\* before it began exactly once, invoked no handler twice, and once no
\* subscribe call is in progress every completed subscription is in the
\* registry.
C15_ConcurrentSafe ==
    /\ \A p \in PublisherThreads :
          pubT[p].pc = "returned" =>
              /\ \A c \in Owed(p) : Occurrences(pubT[p].calls, c[2]) = 1
              /\ \A t \in SubscriberThreads :
                    Occurrences(pubT[p].calls, CallbackOf(t)) <= 1
    /\ (\A t \in SubscriberThreads : subT[t].pc \in {"idle", "done"}) =>
          \A c \in completed :
              /\ c[1] \in DOMAIN registry
              /\ Occurrences(lists[registry[c[1]]], c[2]) = 1

D(h, event, depth) == [handler |-> h, event |-> event, depth |-> depth]

Untagged(ds) == [i \in 1..Len(ds) |-> D(ds[i].handler, ds[i].event, ds[i].depth)]

\* The invocations an outermost publish of event makes with the bridge
\* subscribed; nested: its handler published modem_data_connected.
ExpectedDeliveries(event, nested) ==
    LET inner == IF nested
                 THEN <<D(OnModemData, "modem_data_connected", 2),
                        D(ForwardAny, "modem_data_connected", 2)>>
                 ELSE <<>>
    IN  CASE event = "modem_connect_request" ->
                <<D(HandleConnect, event, 1)>> \o inner \o <<D(ForwardAny, event, 1)>>
          [] event = "modem_disconnect_request" ->
                <<D(HandleDisconnect, event, 1)>> \o inner \o <<D(ForwardAny, event, 1)>>
          [] OTHER -> <<D(ForwardAny, event, 1)>>

NestedHappened == \E i \in 1..Len(deliveries) : deliveries[i].depth = 2

\* C16: a handler that publishes from inside a publish does not deadlock:
\* every publish in progress returns, and a returned outermost publish has
\* invoked its handler, then all handlers of the nested publish, then its
\* own remaining handlers.
C16_ReentrantPublish ==
    /\ []((stack = <<>> /\ top.wired) =>
            Untagged(deliveries) = ExpectedDeliveries(top.event, NestedHappened))
    /\ [](top.event = "modem_disconnect_request" /\ stack = <<>> => NestedHappened)
    /\ (stack # <<>> ~> stack = <<>>)

\* modem_disconnect_request: the handler's nested publish of
\* modem_data_connected ran to its end, then the bridge got the outer event.
C16_Witness ==
    /\ stack = <<>>
    /\ top = [event |-> "modem_disconnect_request", wired |-> TRUE]
    /\ Len(deliveries) = 4
    /\ deliveries[2].handler = OnModemData /\ deliveries[2].depth = 2
    /\ deliveries[4].handler = ForwardAny /\ deliveries[4].depth = 1

\* C17: every payload delivered to a "*" handler carries the name of the
\* topic it was published under.
C17_WildcardTagged ==
    \A i \in 1..Len(deliveries) :
        deliveries[i].handler = ForwardAny => deliveries[i].tag = deliveries[i].event

EthernetFirst(status) == status.ethernet => status.active = "ethernet"

\* C18: in every network_update payload and every result of read_status(),
\* also when read while update is executing, active is "ethernet" whenever
\* ethernet is connected.
C18_EthernetPriority == EthernetFirst(nmPayload) /\ EthernetFirst(nmRead)

\* C19: between the operations of the workers (no publish in progress),
\* failover_active is true exactly when the latest modem_data_connected
\* event carried connected = true, and false when none was published.
C19_FailoverActiveMirrorsModem ==
    nw.failover_active <=> (lastModemEvent = "true")

\* After a recovery: connected = true was published and mirrored, then the
\* disconnect request made the modem publish connected = false.
C19_Witness ==
    /\ lastModemEvent = "false"
    /\ ~nw.failover_active
    /\ lastEval = "ok"
    /\ DiscReqs(published) = 1

EventsOf(events) == {events[i] : i \in 1..Len(events)}

\* C20: every connect_data call that does not end with the data session
\* connected publishes modem_data_connected with connected = false before
\* it returns (no APN, modem unreachable, not registered, no IP address).
C20_ConnectFailurePublishes ==
    [][ (ConnReqs(published') = 1 /\ ~mw'.data_connected)
            => DataEv(FALSE) \in EventsOf(published')
      ]_vars

(***************************************************************************)
(* C21..C25: the modem data session                                        *)
(***************************************************************************)
\* The step is the return of a connect_data / disconnect_data call.
CallReturns == lastOp'.seq # lastOp.seq

\* C21: a connect_data call made while the session is marked connected
\* returns at once: it starts no send on the AT channel, it publishes no
\* event, and the worker's fields, the module's attributes and the engine
\* are as they were.
C21_ConnectNoopWhenConnected ==
    [][(CallReturns /\ lastOp'.kind = "connect" /\ lastOp'.was_connected)
          => /\ lastOp'.evs = <<>>
             /\ UNCHANGED <<engineSer, engineLock, thr, snd, modemW, modemModule>>
      ]_vars

\* A connect_data call returned True that found the session connected.
C21_Witness ==
    /\ lastOp.kind = "connect"
    /\ lastOp.was_connected
    /\ lastOp.result
    /\ modemW.data_connected

\* C22: every disconnect_data call, connected before or not, detach
\* command answered or not, ends with the session marked not connected in
\* the worker and in the module and with modem_data_connected
\* {connected: false} published; that is all it changes, so a second call
\* leaves what the first one left.
C22_DisconnectUnconditional ==
    [][(CallReturns /\ lastOp'.kind = "disconnect")
          => /\ modemW' = [modemW EXCEPT !.data_connected = FALSE]
             /\ modemModule' = [modemModule EXCEPT !.data_connected = "false"]
             /\ lastOp'.evs = <<DataConnectedPayload(FALSE)>>
             /\ (lastOp.kind = "disconnect"
                    => modemW' = modemW /\ modemModule' = modemModule)
      ]_vars

\* A second disconnect_data call in a row returned, made while not
\* connected, its detach command unanswered.
C22_Witness ==
    /\ lastOp.kind = "disconnect"
    /\ lastOp.prevKind = "disconnect"
    /\ ~lastOp.was_connected
    /\ lastOp.answer = "empty"
    /\ ~modemW.data_connected

\* C23: the modem_data_connected payload of a connect_data call that
\* established the session has connected = true and two more fields, the
\* interface name and the IP address.
C23_ConnectedPayloadHasInterfaceAndIp ==
    (lastOp.kind = "connect" /\ lastOp.result /\ ~lastOp.was_connected)
        => /\ Len(lastOp.evs) = 1
           /\ lastOp.evs[1].connected
           /\ \E ki \in DOMAIN lastOp.evs[1] \ {"connected"} :
                 \E kp \in DOMAIN lastOp.evs[1] \ {"connected", ki} : TRUE

\* A thread is inside connect_data or disconnect_data.
InFlight(t) == thr[t].op \in {"connect", "disconnect"}

\* C24: at most one connect_data / disconnect_data call is in flight,
\* whichever threads publish the requests.
C24_OneOperationInFlight ==
    Cardinality({t \in Threads : InFlight(t)}) <= 1

\* A thread is inside the "with self.lock" block of send.
InExchange(t) == snd[t].pc \in {"locked", "wrote"}

\* C25: at most one thread is inside the command/response exchange of
\* send, that thread holds the lock, and the lock is free when no thread is
\* inside (a send that failed has released it).
C25_OneExchangeAtATime ==
    /\ Cardinality({t \in Threads : InExchange(t)}) <= 1
    /\ \A t \in Threads : InExchange(t) => engineLock = t
    /\ engineLock # "none" => InExchange(engineLock)

\* The ModemWorker thread reads its response while the NetworkWorker
\* thread, inside connect_data, waits for the lock.
C25_Witness ==
    /\ snd[ModemThread].pc = "wrote"
    /\ snd[NetworkThread].pc = "wait"
    /\ thr[NetworkThread].op = "connect"

(***************************************************************************)
(* C26, C27: the workers' loops                                            *)
(***************************************************************************)
\* C26: no exception raised in an iteration leaves the start() loop of
\* NetworkWorker, ModemWorker, CloudUploader or OTAManager.
C26_NoExceptionCrossesLoop ==
    \A w \in LoopWorkers : loopPc[w] # "crashed"

\* stop() has been called on the worker.
StopCalled(w) == ~loopRunning[w]

\* C27: a worker on which stop() was called is not cut off in the work of
\* an iteration: its thread does not end inside the loop body or the
\* except clause.
C27_CooperativeStop ==
    \A w \in LoopWorkers :
        (StopCalled(w) /\ loopPc[w] = "killed") => killedAt[w] \notin {"body", "except"}

(***************************************************************************)
(* C28..C30: configuration changes and failover                            *)
(***************************************************************************)
\* C28: once apply_settings has applied and announced a modem APN, the
\* NetworkWorker and the ModemWorker both hold the APN that is in the
\* configuration file.
C28_BothHoldNewApn ==
    nSettings > 0 => (nw.failover_apn = cfgDisk.apn /\ mw.apn = cfgDisk.apn)

\* C29: an iteration of the NetworkWorker made while failover is disabled
\* or no APN is set publishes neither modem request and leaves the failure
\* counter, the failover flag and the time of the last attempt as they
\* were.
C29_IdleWhileNotConfigured ==
    [][((~nw.failover_enabled \/ nw.failover_apn = "") /\ now' # now)
          => /\ CountEv(published', "modem_connect_request") = 0
             /\ CountEv(published', "modem_disconnect_request") = 0
             /\ nw'.consecutive_failures = nw.consecutive_failures
             /\ nw'.failover_active = nw.failover_active
             /\ nw'.last_modem_attempt = nw.last_modem_attempt
      ]_vars

\* An evaluation found failover switched off by a settings change made
\* while failover was active.
C29_Witness ==
    /\ lastEval = "disabled"
    /\ nSettings > 0
    /\ nw.failover_active
    /\ nw.failover_apn = ""

\* C30: when the modem data session is connected and from then on every
\* iteration finds a primary link up and reachable, an iteration comes
\* that publishes modem_disconnect_request and leaves the session torn
\* down.
C30_SessionTornDownOnRecovery ==
    (mw.data_connected /\ []primaryUp)
        ~> (CountEv(published, "modem_disconnect_request") > 0 /\ ~mw.data_connected)

(***************************************************************************)
(* C31..C33: failover while the modem session is up                        *)
(***************************************************************************)
\* C31: while the latest modem_data_connected event carried connected = true,
\* no operation publishes modem_connect_request, whatever the failure count
\* and however long ago the last attempt was.
C31_NoRequestWhileConnected ==
    [][ lastModemEvent = "true" => ConnReqs(published') = 0 ]_vars

\* The session is up, failures kept being counted past the threshold and the
\* retry delay since the last attempt has run out: an evaluation that would
\* request a connect but for the session being up.
C31_Witness ==
    /\ lastModemEvent = "true"
    /\ lastEval \in {"fail_probe", "fail_nolink"}
    /\ nw.consecutive_failures >= FailureThreshold + 2
    /\ now - nw.last_modem_attempt >= FAILOVER_RETRY_DELAY
    /\ ConnReqs(published) = 0

\* C32: an iteration of the NetworkWorker loop that samples the clock less
\* than FAILOVER_CHECK_INTERVAL after the previous evaluation leaves the
\* failure counter, the failover flag, the last-check time and the
\* last-attempt time as they were and publishes neither request.
C32_NoEvaluationWithinInterval ==
    [][ (now' # now /\ now' - nw.last_failover_check < FAILOVER_CHECK_INTERVAL)
            => /\ nw'.consecutive_failures = nw.consecutive_failures
               /\ nw'.failover_active = nw.failover_active
               /\ nw'.last_failover_check = nw.last_failover_check
               /\ nw'.last_modem_attempt = nw.last_modem_attempt
               /\ ConnReqs(published') = 0
               /\ DiscReqs(published') = 0
      ]_vars

\* A tick INTERVAL after an evaluation that counted a failure, with both
\* links down: an evaluation would have counted another failure and, at the
\* threshold with no attempt made yet, requested a connect.
C32_Witness ==
    /\ lastEval = "too_soon"
    /\ now - nw.last_failover_check = INTERVAL
    /\ ~netState.wifi /\ ~netState.ethernet
    /\ nw.consecutive_failures = FailureThreshold - 1
    /\ nw.last_modem_attempt = 0

\* C33: with the data session established (the latest modem_data_connected
\* carried connected = true) and neither WiFi nor Ethernet connected, the
\* network_update of the next iteration reports active = "modem" with
\* modem_data true.
C33_ModemReportedActive ==
    [][ (now' # now /\ lastModemEvent = "true"
            /\ ~netState'.wifi /\ ~netState'.ethernet)
            => (netState'.active = "modem" /\ netState'.modem_data)
      ]_vars

(***************************************************************************)
(* C34: the AT channel and logical operations                              *)
(***************************************************************************)
\* C34: while connect_data on the NetworkWorker thread is between its AT
\* commands (AT+CREG? answered, the APN and attach commands still to be
\* sent), no command of the ModemWorker poll loop is on the channel.
C34_OneLogicalOperationOnChannel ==
    ~ ( /\ thr[NetworkThread].op = "connect"
        /\ thr[NetworkThread].pc = "configure"
        /\ thr[ModemThread].op = "poll"
        /\ snd[ModemThread].pc = "wrote" )

(***************************************************************************)
(* C35..C38: failures of the OTA stages                                    *)
(***************************************************************************)
\* Progress state of a stage, and the reason code the claim gives for it.
StageReasons ==
    { <<"downloading", "download_failed">>,
      <<"verifying", "sha256_mismatch">>,
      <<"extracting", "extract_failed">>,
      <<"installing_backend", "backend_install_failed">>,
      <<"rebuilding_venv", "venv_failed">>,
      <<"restarting", "restart_failed">> }

C36_MissingBackendLeavesInstall ==
    [][ (otaPc = "installing_backend" /\ otaPc' # otaPc /\ ~BackendIsDir(staging))
            => /\ ota_events' = Append(ota_events,
                                       Err("backend_install_failed", otaJob.id))
               /\ otaPc' = "idle"
               /\ installDir' = installDir
               /\ venv' = venv
      ]_vars

\* C37: a step of the rebuild stage that publishes venv_failed ends the
\* job, leaves the install directory holding the payload the install stage
\* copied from staging, and requests no restart.
C37_VenvFailureKeepsPayload ==
    [][ ( /\ otaPc = "rebuilding_venv"
          /\ Len(ota_events') = Len(ota_events) + 1
          /\ ota_events'[Len(ota_events')] = Err("venv_failed", otaJob.id) )
            => /\ otaPc' = "idle"
               /\ installDir' = installDir
               /\ installDir' = staging
               /\ BackendIsDir(installDir')
               /\ restarts' = restarts
      ]_vars

\* The first job of a run ended with venv_failed: the new application is in
\* place over the old one, the venv is broken and nothing was restarted.
C37_Witness ==
    /\ otaPc = "idle"
    /\ otaJob.id = 1
    /\ LastEvent(1) = Err("venv_failed", 1)
    /\ dirsAtTake[2] = "old"
    /\ installDir = "app"
    /\ venv = "broken"
    /\ restarts = 0

\* C38: when the first job passed its download and failed at verification
\* or extraction, and the second job is for the same URL (OTA_DIR holds the
\* one file), the second job's downloaded event comes with the file equal
\* to the remote content.
C38_RequeueDownloadsAgain ==
    ( /\ otaJob.id = 2
      /\ LastEvent(1) \in {Err("sha256_mismatch", 1), Err("extract_failed", 1)}
      /\ DOMAIN otaFiles = {Filename(otaJob.url)}
      /\ HasState(2, "downloaded") )
        => otaFiles[Filename(otaJob.url)] = Remote(otaJob.url)

(***************************************************************************)
(* C39: TachoUploader                                                      *)
(***************************************************************************)
\* C39: a step in which the server accepts the upload of a daily log
\* removes that log from TACHO_DIR and publishes tacho_upload_update with
\* status "uploaded" for it, and it is the only accepted upload of that log.
C39_UploadedOnce ==
    [][ \A f \in DailyFiles :
          uploadCount'[f] > uploadCount[f]
            => /\ f \notin tachoDir'
               /\ tachoUpdates' = Append(tachoUpdates, UploadedPayload(f))
               /\ uploadCount'[f] = 1
      ]_vars

(***************************************************************************)
(* C40: subscriptions made while a publish call runs                       *)
(***************************************************************************)
\* C40: when a publish call has returned, the callbacks it invoked are the
\* ones registered for the event and for "*" when the call began, whatever
\* subscribe calls ran while it was executing.
C40_HandlersAtPublishBegin ==
    pubPhase = "returned" => calls = Registered(subsAtStart, pubEvent)
====
